---- MODULE Spec2Model ----
(***************************************************************************)
(* A model of chess.ts (a TypeScript port of python-chess): the bitboard   *)
(* BaseBoard, the pseudo-legal and legal move generators, and the Board    *)
(* state machine (push / pop, castling rights, FEN, UCI and SAN).          *)
(*                                                                         *)
(* A Bitboard (a 64-bit bigint in the source) is the set of its squares:   *)
(* & is \cap, | is \cup, ^ is symmetric difference, & ~x is \ x.  Strings  *)
(* are sequences of one-character strings.  `null` is the value -1.        *)
(***************************************************************************)
EXTENDS Integers, Sequences, FiniteSets, TLC

VARIABLES board, last, other, node

vars == <<board, last, other, node>>

null == -1

\* `const v = value;` followed by the rest of a function body, F, that uses v
With(value, F(_)) == F(value)

----------------------------------------------------------------------------
(* Colours, piece types, squares *)

WHITE == TRUE
BLACK == FALSE
COLORS == <<WHITE, BLACK>>
colorIdx(color) == IF color THEN 1 ELSE 0

PAWN == 1
KNIGHT == 2
BISHOP == 3
ROOK == 4
QUEEN == 5
KING == 6

\* Index 1 is the source's PIECE_SYMBOLS[0] (null, which no character equals).
PIECE_SYMBOLS == <<"null", "p", "n", "b", "r", "q", "k">>
FILE_NAMES == <<"a", "b", "c", "d", "e", "f", "g", "h">>
RANK_NAMES == <<"1", "2", "3", "4", "5", "6", "7", "8">>

DIGITS == <<"0", "1", "2", "3", "4", "5", "6", "7", "8", "9">>

LOWER == <<"a","b","c","d","e","f","g","h","i","j","k","l","m",
           "n","o","p","q","r","s","t","u","v","w","x","y","z">>
UPPER == <<"A","B","C","D","E","F","G","H","I","J","K","L","M",
           "N","O","P","Q","R","S","T","U","V","W","X","Y","Z">>

\* Array.prototype.indexOf on a 0-based array: -1 when absent.
indexOf(arr, x) ==
  IF \E i \in DOMAIN arr : arr[i] = x
  THEN (CHOOSE i \in DOMAIN arr : arr[i] = x /\ \A j \in DOMAIN arr : arr[j] = x => i <= j) - 1
  ELSE -1

toUpperCase(c) == LET i == indexOf(LOWER, c) IN IF i = -1 THEN c ELSE UPPER[i + 1]
toLowerCase(c) == LET i == indexOf(UPPER, c) IN IF i = -1 THEN c ELSE LOWER[i + 1]

pieceSymbol(pieceType) == PIECE_SYMBOLS[pieceType + 1]

SQUARES == 0..63
A1 == 0
C1 == 2
D1 == 3
E1 == 4
F1 == 5
G1 == 6
H1 == 7
A2 == 8
A4 == 24
A8 == 56
C8 == 58
D8 == 59
E8 == 60
F8 == 61
G8 == 62
H8 == 63

squareFile(sq) == sq % 8
squareRank(sq) == sq \div 8
square(fileIndex, rankIndex) == rankIndex * 8 + fileIndex

\* SQUARE_NAMES[sq], a two-character string
SQUARE_NAMES(sq) == <<FILE_NAMES[squareFile(sq) + 1], RANK_NAMES[squareRank(sq) + 1]>>

\* SQUARE_NAMES.indexOf(name)
parseSquareName(name) ==
  IF Len(name) = 2 /\ indexOf(FILE_NAMES, name[1]) # -1 /\ indexOf(RANK_NAMES, name[2]) # -1
  THEN square(indexOf(FILE_NAMES, name[1]), indexOf(RANK_NAMES, name[2]))
  ELSE -1

Abs(n) == IF n < 0 THEN -n ELSE n
Max(a, b) == IF a > b THEN a ELSE b
Min(a, b) == IF a < b THEN a ELSE b

squareDistance(a, b) ==
  Max(Abs(squareFile(a) - squareFile(b)), Abs(squareRank(a) - squareRank(b)))

----------------------------------------------------------------------------
(* Bitboards *)

BB_EMPTY == {}
BB_ALL == SQUARES
BB_SQUARES(sq) == {sq}
BB_CORNERS == {A1, H1, A8, H8}
BB_FILES(i) == {sq \in SQUARES : squareFile(sq) = i}
BB_RANKS(i) == {sq \in SQUARES : squareRank(sq) = i}
BB_FILE_A == BB_FILES(0)
BB_FILE_C == BB_FILES(2)
BB_FILE_D == BB_FILES(3)
BB_FILE_F == BB_FILES(5)
BB_FILE_G == BB_FILES(6)
BB_FILE_H == BB_FILES(7)
BB_RANK_1 == BB_RANKS(0)
BB_RANK_2 == BB_RANKS(1)
BB_RANK_3 == BB_RANKS(2)
BB_RANK_4 == BB_RANKS(3)
BB_RANK_5 == BB_RANKS(4)
BB_RANK_6 == BB_RANKS(5)
BB_RANK_7 == BB_RANKS(6)
BB_RANK_8 == BB_RANKS(7)
BB_BACKRANKS == BB_RANK_1 \cup BB_RANK_8
BB_LIGHT_SQUARES == {sq \in SQUARES : (squareFile(sq) + squareRank(sq)) % 2 = 1}
BB_DARK_SQUARES == {sq \in SQUARES : (squareFile(sq) + squareRank(sq)) % 2 = 0}

\* a ^ b on bitboards
Xor(a, b) == (a \ b) \cup (b \ a)

\* utils.bitLength(bb & -bb) - 1: the lowest square, -1 for the empty board
lsb(bb) == IF bb = {} THEN -1 ELSE CHOOSE sq \in bb : \A t \in bb : sq <= t
\* utils.bitLength(bb) - 1: the highest square, -1 for the empty board
msb(bb) == IF bb = {} THEN -1 ELSE CHOOSE sq \in bb : \A t \in bb : sq >= t
\* bb & -bb
lowestBit(bb) == IF bb = {} THEN {} ELSE {lsb(bb)}
popcount(bb) == Cardinality(bb)

REVERSED_SQUARES == [i \in 1..64 |-> 64 - i]
\* The squares of bb, highest first.
scanReversed(bb) == SelectSeq(REVERSED_SQUARES, LAMBDA sq : sq \in bb)

\* b << 8n, b >> 8n restricted to the 64 squares every caller masks with
shiftUp(b) == {sq + 8 : sq \in b} \cap BB_ALL
shiftDown(b) == {sq - 8 : sq \in b} \cap BB_ALL

RECURSIVE slideFrom(_, _, _)
slideFrom(sq, delta, occupied) ==
  LET n == sq + delta IN
  IF ~(0 <= n /\ n < 64) THEN {}
  ELSE IF squareDistance(n, sq) > 2 THEN {}
  ELSE IF n \in occupied THEN {n}
  ELSE {n} \cup slideFrom(n, delta, occupied)

_slidingAttacks(sq, occupied, deltas) ==
  UNION {slideFrom(sq, delta, occupied) : delta \in deltas}

_stepAttacks(sq, deltas) == _slidingAttacks(sq, BB_ALL, deltas)

BB_KNIGHT_ATTACKS == [sq \in SQUARES |-> _stepAttacks(sq, {17, 15, 10, 6, -17, -15, -10, -6})]
BB_KING_ATTACKS == [sq \in SQUARES |-> _stepAttacks(sq, {9, 8, 7, 1, -9, -8, -7, -1})]
\* Indexed by colorIdx: 0 (black) steps down, 1 (white) steps up.
BB_PAWN_ATTACKS ==
  [c \in 0..1 |-> [sq \in SQUARES |-> _stepAttacks(sq, IF c = 0 THEN {-7, -9} ELSE {7, 9})]]

_edges(sq) ==
  ((BB_RANK_1 \cup BB_RANK_8) \ BB_RANKS(squareRank(sq)))
    \cup ((BB_FILE_A \cup BB_FILE_H) \ BB_FILES(squareFile(sq)))

DIAG_DELTAS == {-9, -7, 7, 9}
FILE_DELTAS == {-8, 8}
RANK_DELTAS == {-1, 1}

\* _attackTable: the masks, and the attack sets keyed by a subset of the mask
BB_DIAG_MASKS == [sq \in SQUARES |-> _slidingAttacks(sq, {}, DIAG_DELTAS) \ _edges(sq)]
BB_FILE_MASKS == [sq \in SQUARES |-> _slidingAttacks(sq, {}, FILE_DELTAS) \ _edges(sq)]
BB_RANK_MASKS == [sq \in SQUARES |-> _slidingAttacks(sq, {}, RANK_DELTAS) \ _edges(sq)]
BB_DIAG_ATTACKS(sq, subset) == _slidingAttacks(sq, subset, DIAG_DELTAS)
BB_FILE_ATTACKS(sq, subset) == _slidingAttacks(sq, subset, FILE_DELTAS)
BB_RANK_ATTACKS(sq, subset) == _slidingAttacks(sq, subset, RANK_DELTAS)
\* BB_*_ATTACKS[sq].get(0n)
DIAG_RAYS == [sq \in SQUARES |-> BB_DIAG_ATTACKS(sq, {})]
FILE_RAYS == [sq \in SQUARES |-> BB_FILE_ATTACKS(sq, {})]
RANK_RAYS == [sq \in SQUARES |-> BB_RANK_ATTACKS(sq, {})]

BB_RAYS ==
  [a \in SQUARES |-> [b \in SQUARES |->
     IF b \in DIAG_RAYS[a] THEN (DIAG_RAYS[a] \cap DIAG_RAYS[b]) \cup {a, b}
     ELSE IF b \in RANK_RAYS[a] THEN RANK_RAYS[a] \cup {a}
     ELSE IF b \in FILE_RAYS[a] THEN FILE_RAYS[a] \cup {a}
     ELSE BB_EMPTY]]

ray(a, b) == BB_RAYS[a][b]

\* A faulty between that keeps the lowest bit: the lower of the two squares.
betweenWithLowest(a, b) == {sq \in BB_RAYS[a][b] : (sq >= a) # (sq >= b)}

\* BB_RAYS[a][b] & ((BB_ALL << a) ^ (BB_ALL << b)), then the lowest bit cleared
between(a, b) ==
  With({sq \in BB_RAYS[a][b] : (sq >= a) # (sq >= b)}, LAMBDA bb : bb \ lowestBit(bb))

----------------------------------------------------------------------------
(* Moves.  `ref` stands for the identity of the Move object: every        *)
(* `new Move(...)` made inside the library is a fresh object (ref 0); an   *)
(* object held by the caller has a nonzero ref.                            *)

Move(fromSquare, toSquare, promotion) ==
  [fromSquare |-> fromSquare, toSquare |-> toSquare, promotion |-> promotion,
   drop |-> null, ref |-> 0]

MoveNull == Move(0, 0, null)

\* Move.bool()
moveBool(m) == m.fromSquare # 0 \/ m.toSquare # 0 \/ m.promotion # null \/ m.drop # null

\* item === value on two Move objects
SameObject(a, b) == a.ref # 0 /\ a.ref = b.ref

\* Field-by-field comparison of two moves
sameMove(a, b) ==
  /\ a.fromSquare = b.fromSquare
  /\ a.toSquare = b.toSquare
  /\ a.promotion = b.promotion
  /\ a.drop = b.drop

iterIncludes(iterable, value) ==
  \E i \in 1..Len(iterable) : SameObject(iterable[i], value)

iterAny(iterable) == Len(iterable) > 0

----------------------------------------------------------------------------
(* BaseBoard *)

pieceTypeAt(b, sq) ==
  IF sq \notin b.occupied THEN null
  ELSE IF sq \in b.pawns THEN PAWN
  ELSE IF sq \in b.knights THEN KNIGHT
  ELSE IF sq \in b.bishops THEN BISHOP
  ELSE IF sq \in b.rooks THEN ROOK
  ELSE IF sq \in b.queens THEN QUEEN
  ELSE KING

colorAt(b, sq) ==
  IF sq \in b.occupiedCo[colorIdx(WHITE)] THEN 1
  ELSE IF sq \in b.occupiedCo[colorIdx(BLACK)] THEN 0
  ELSE null

king(b, color) ==
  LET kingMask == (b.occupiedCo[colorIdx(color)] \cap b.kings) \ b.promoted
  IN  IF kingMask # {} THEN msb(kingMask) ELSE null

attacksMask(b, sq) ==
  IF sq \in b.pawns
  THEN BB_PAWN_ATTACKS[colorIdx(sq \in b.occupiedCo[colorIdx(WHITE)])][sq]
  ELSE IF sq \in b.knights THEN BB_KNIGHT_ATTACKS[sq]
  ELSE IF sq \in b.kings THEN BB_KING_ATTACKS[sq]
  ELSE
    (IF sq \in b.bishops \/ sq \in b.queens
     THEN BB_DIAG_ATTACKS(sq, BB_DIAG_MASKS[sq] \cap b.occupied) ELSE {})
    \cup
    (IF sq \in b.rooks \/ sq \in b.queens
     THEN BB_RANK_ATTACKS(sq, BB_RANK_MASKS[sq] \cap b.occupied)
            \cup BB_FILE_ATTACKS(sq, BB_FILE_MASKS[sq] \cap b.occupied)
     ELSE {})

_attackersMask(b, color, sq, occupied) ==
  LET rankPieces == BB_RANK_MASKS[sq] \cap occupied
      filePieces == BB_FILE_MASKS[sq] \cap occupied
      diagPieces == BB_DIAG_MASKS[sq] \cap occupied
      queensAndRooks == b.queens \cup b.rooks
      queensAndBishops == b.queens \cup b.bishops
      attackers ==
        (BB_KING_ATTACKS[sq] \cap b.kings)
        \cup (BB_KNIGHT_ATTACKS[sq] \cap b.knights)
        \cup (BB_RANK_ATTACKS(sq, rankPieces) \cap queensAndRooks)
        \cup (BB_FILE_ATTACKS(sq, filePieces) \cap queensAndRooks)
        \cup (BB_DIAG_ATTACKS(sq, diagPieces) \cap queensAndBishops)
        \cup (BB_PAWN_ATTACKS[colorIdx(~color)][sq] \cap b.pawns)
  IN  attackers \cap b.occupiedCo[colorIdx(color)]

attackersMask(b, color, sq) == _attackersMask(b, color, sq, b.occupied)

isAttackedBy(b, color, sq) == attackersMask(b, color, sq) # {}

pinMask(b, color, sq) ==
  With(king(b, color), LAMBDA k :
    IF k = null THEN BB_ALL
    ELSE
      With(<<<<FILE_RAYS[k], b.rooks \cup b.queens>>,
             <<RANK_RAYS[k], b.rooks \cup b.queens>>,
             <<DIAG_RAYS[k], b.bishops \cup b.queens>>>>, LAMBDA lines :
        IF \A i \in 1..3 : sq \notin lines[i][1] THEN BB_ALL
        ELSE
          With(CHOOSE i \in 1..3 :
                 sq \in lines[i][1] /\ \A j \in 1..(i - 1) : sq \notin lines[j][1],
               LAMBDA i :
            With(SelectSeq(
                   scanReversed((lines[i][1] \cap lines[i][2])
                                  \cap b.occupiedCo[colorIdx(~color)]),
                   LAMBDA sniper : between(sniper, k) \cap (b.occupied \cup {sq}) = {sq}),
                 LAMBDA pinning :
              IF Len(pinning) > 0 THEN ray(k, pinning[1]) ELSE BB_ALL))))

_removePieceAt(b, sq) ==
  With(pieceTypeAt(b, sq), LAMBDA pieceType :
    IF pieceType = null THEN b
    ELSE
      [b EXCEPT
         !.pawns = IF pieceType = PAWN THEN Xor(@, {sq}) ELSE @,
         !.knights = IF pieceType = KNIGHT THEN Xor(@, {sq}) ELSE @,
         !.bishops = IF pieceType = BISHOP THEN Xor(@, {sq}) ELSE @,
         !.rooks = IF pieceType = ROOK THEN Xor(@, {sq}) ELSE @,
         !.queens = IF pieceType = QUEEN THEN Xor(@, {sq}) ELSE @,
         !.kings = IF pieceType = KING THEN Xor(@, {sq}) ELSE @,
         !.occupied = Xor(@, {sq}),
         !.occupiedCo = [c \in 0..1 |-> @[c] \ {sq}],
         !.promoted = @ \ {sq}])

_setPieceAt(b0, sq, pieceType, color, promoted) ==
  With(_removePieceAt(b0, sq), LAMBDA b :
    IF pieceType \notin PAWN..KING THEN b
    ELSE
      [b EXCEPT
         !.pawns = IF pieceType = PAWN THEN @ \cup {sq} ELSE @,
         !.knights = IF pieceType = KNIGHT THEN @ \cup {sq} ELSE @,
         !.bishops = IF pieceType = BISHOP THEN @ \cup {sq} ELSE @,
         !.rooks = IF pieceType = ROOK THEN @ \cup {sq} ELSE @,
         !.queens = IF pieceType = QUEEN THEN @ \cup {sq} ELSE @,
         !.kings = IF pieceType = KING THEN @ \cup {sq} ELSE @,
         !.occupied = Xor(@, {sq}),
         !.occupiedCo = [@ EXCEPT ![colorIdx(color)] = Xor(@, {sq})],
         !.promoted = IF promoted THEN Xor(@, {sq}) ELSE @])

----------------------------------------------------------------------------
(* Board: move classification and castling rights *)

\* Concatenation of a sequence of sequences (nested generator loops).
RECURSIVE Flatten(_)
Flatten(seqs) == IF seqs = <<>> THEN <<>> ELSE Head(seqs) \o Flatten(Tail(seqs))

\* The items a generator yields, as a set
Range(seq) == {seq[i] : i \in 1..Len(seq)}

\* Truthiness of a `Square | null` value: null and 0 (a1) are both falsy.
truthy(sq) == sq # null /\ sq # 0

\* Truthiness of an Array object: true whatever its length.
arrayTruthy(arr) == TRUE

isVariantEnd(b) == FALSE

isEnPassant(b, move) ==
  /\ b.epSquare = move.toSquare
  /\ move.fromSquare \in b.pawns
  /\ Abs(move.toSquare - move.fromSquare) \in {7, 9}
  /\ move.toSquare \notin b.occupied

isCapture(b, move) ==
  \/ Xor({move.fromSquare}, {move.toSquare}) \cap b.occupiedCo[colorIdx(~b.turn)] # {}
  \/ isEnPassant(b, move)

\* A faulty isZeroing that does not count captures.
isZeroingPawnsOnly(b, move) ==
  \/ Xor({move.fromSquare}, {move.toSquare}) \cap b.pawns # {}
  \/ move.drop = PAWN

isZeroing(b, move) ==
  LET touched == Xor({move.fromSquare}, {move.toSquare})
  IN  \/ touched \cap b.pawns # {}
      \/ touched \cap b.occupiedCo[colorIdx(~b.turn)] # {}
      \/ move.drop = PAWN

isCastling(b, move) ==
  IF move.fromSquare \in b.kings
  THEN LET diff == squareFile(move.fromSquare) - squareFile(move.toSquare)
       IN  Abs(diff) > 1
             \/ move.toSquare \in (b.rooks \cap b.occupiedCo[colorIdx(b.turn)])
  ELSE FALSE

\* The filter of cleanCastlingRights below its early return
filteredCastlingRights(b) ==
    LET castling == b.castlingRights \cap b.rooks
        whiteCastling0 == (castling \cap BB_RANK_1) \cap b.occupiedCo[colorIdx(WHITE)]
        blackCastling0 == (castling \cap BB_RANK_8) \cap b.occupiedCo[colorIdx(BLACK)]
    IN
    IF ~b.chess960 THEN
      LET whiteCastling ==
            IF E1 \in (b.occupiedCo[colorIdx(WHITE)] \cap b.kings) \ b.promoted
            THEN whiteCastling0 \cap {A1, H1} ELSE {}
          blackCastling ==
            IF E8 \in (b.occupiedCo[colorIdx(BLACK)] \cap b.kings) \ b.promoted
            THEN blackCastling0 \cap {A8, H8} ELSE {}
      IN  whiteCastling \cup blackCastling
    ELSE
      LET whiteKingMask ==
            ((b.occupiedCo[colorIdx(WHITE)] \cap b.kings) \cap BB_RANK_1) \ b.promoted
          blackKingMask ==
            ((b.occupiedCo[colorIdx(BLACK)] \cap b.kings) \cap BB_RANK_8) \ b.promoted
          whiteCastling == IF whiteKingMask = {} THEN {} ELSE whiteCastling0
          blackCastling == IF blackKingMask = {} THEN {} ELSE blackCastling0
          whiteASide0 == lowestBit(whiteCastling)
          whiteHSide0 == IF whiteCastling # {} THEN {msb(whiteCastling)} ELSE {}
          whiteASide ==
            IF whiteASide0 # {} /\ msb(whiteASide0) > msb(whiteKingMask) THEN {} ELSE whiteASide0
          whiteHSide ==
            IF whiteHSide0 # {} /\ msb(whiteHSide0) < msb(whiteKingMask) THEN {} ELSE whiteHSide0
          blackASide0 == lowestBit(blackCastling)
          blackHSide0 == IF blackCastling # {} THEN {msb(blackCastling)} ELSE {}
          blackASide ==
            IF blackASide0 # {} /\ msb(blackASide0) > msb(blackKingMask) THEN {} ELSE blackASide0
          blackHSide ==
            IF blackHSide0 # {} /\ msb(blackHSide0) < msb(blackKingMask) THEN {} ELSE blackHSide0
      IN  ((blackASide \cup blackHSide) \cup whiteASide) \cup whiteHSide

cleanCastlingRights(b) ==
  IF arrayTruthy(b.stack) THEN b.castlingRights
  ELSE filteredCastlingRights(b)

_fromChess960(b, chess960, fromSquare, toSquare, promotion, drop) ==
  IF ~chess960 /\ promotion = null /\ drop = null
       /\ fromSquare = E1 /\ E1 \in b.kings /\ toSquare = H1 THEN Move(E1, G1, null)
  ELSE IF ~chess960 /\ promotion = null /\ drop = null
       /\ fromSquare = E1 /\ E1 \in b.kings /\ toSquare = A1 THEN Move(E1, C1, null)
  ELSE IF ~chess960 /\ promotion = null /\ drop = null
       /\ ~(fromSquare = E1 /\ E1 \in b.kings)
       /\ fromSquare = E8 /\ E8 \in b.kings /\ toSquare = H8 THEN Move(E8, G8, null)
  ELSE IF ~chess960 /\ promotion = null /\ drop = null
       /\ ~(fromSquare = E1 /\ E1 \in b.kings)
       /\ fromSquare = E8 /\ E8 \in b.kings /\ toSquare = A8 THEN Move(E8, C8, null)
  ELSE [fromSquare |-> fromSquare, toSquare |-> toSquare,
        promotion |-> promotion, drop |-> drop, ref |-> 0]

\* A faulty conversion that leaves every move as the caller wrote it.
_toChess960Identity(b, move) == move

_toChess960(b, move) ==
  IF move.fromSquare = E1 /\ E1 \in b.kings
  THEN IF move.toSquare = G1 /\ G1 \notin b.rooks THEN Move(E1, H1, null)
       ELSE IF move.toSquare = C1 /\ C1 \notin b.rooks THEN Move(E1, A1, null)
       ELSE move
  ELSE IF move.fromSquare = E8 /\ E8 \in b.kings
  THEN IF move.toSquare = G8 /\ G8 \notin b.rooks THEN Move(E8, H8, null)
       ELSE IF move.toSquare = C8 /\ C8 \notin b.rooks THEN Move(E8, A8, null)
       ELSE move
  ELSE move

_attackedForKing(b, path, occupied) ==
  \E sq \in path : _attackersMask(b, ~b.turn, sq, occupied) # {}

\* The loop body of generateCastlingMoves: may the king castle with this rook?
castlingAllowed(b, backrank, king0, candidate) ==
  With(candidate < msb(king0), LAMBDA aSide :
  With(IF aSide THEN BB_FILE_C \cap backrank ELSE BB_FILE_G \cap backrank, LAMBDA kingTo :
  With(IF aSide THEN BB_FILE_D \cap backrank ELSE BB_FILE_F \cap backrank, LAMBDA rookTo :
  With(between(msb(king0), msb(kingTo)), LAMBDA kingPath :
  With(between(candidate, msb(rookTo)), LAMBDA rookPath :
    ~(\/ Xor(Xor(b.occupied, king0), {candidate})
           \cap (((kingPath \cup rookPath) \cup kingTo) \cup rookTo) # {}
      \/ _attackedForKing(b, kingPath \cup king0, Xor(b.occupied, king0))
      \/ _attackedForKing(b, kingTo,
                          Xor(Xor(Xor(b.occupied, king0), {candidate}), rookTo))))))))

generateCastlingMoves(b, fromMask, toMask) ==
  With(IF b.turn = WHITE THEN BB_RANK_1 ELSE BB_RANK_8, LAMBDA backrank :
  With(lowestBit((((b.occupiedCo[colorIdx(b.turn)] \cap b.kings) \ b.promoted)
                    \cap backrank) \cap fromMask), LAMBDA king0 :
    IF isVariantEnd(b) \/ king0 = {} THEN <<>>
    ELSE
      With(SelectSeq(scanReversed((cleanCastlingRights(b) \cap backrank) \cap toMask),
                     LAMBDA candidate : castlingAllowed(b, backrank, king0, candidate)),
           LAMBDA candidates :
        [i \in 1..Len(candidates) |->
           _fromChess960(b, b.chess960, msb(king0), candidates[i], null, null)])))

generatePseudoLegalEp(b, fromMask, toMask) ==
  IF ~truthy(b.epSquare) \/ b.epSquare \notin toMask THEN <<>>
  ELSE IF b.epSquare \in b.occupied THEN <<>>
  ELSE
    With(scanReversed(
           (((b.pawns \cap b.occupiedCo[colorIdx(b.turn)]) \cap fromMask)
              \cap BB_PAWN_ATTACKS[colorIdx(~b.turn)][b.epSquare])
              \cap BB_RANKS(IF b.turn THEN 4 ELSE 3)), LAMBDA capturers :
      [i \in 1..Len(capturers) |-> Move(capturers[i], b.epSquare, null)])

\* A faulty enumeration that promotes to the knight first.
pawnMovesKnightFirst(fromSquare, toSquare) ==
  IF squareRank(toSquare) \in {0, 7}
  THEN <<Move(fromSquare, toSquare, KNIGHT), Move(fromSquare, toSquare, BISHOP),
         Move(fromSquare, toSquare, ROOK), Move(fromSquare, toSquare, QUEEN)>>
  ELSE <<Move(fromSquare, toSquare, null)>>

\* The move, or its four promotions when it reaches a back rank.
pawnMoves(fromSquare, toSquare) ==
  IF squareRank(toSquare) \in {0, 7}
  THEN <<Move(fromSquare, toSquare, QUEEN), Move(fromSquare, toSquare, ROOK),
         Move(fromSquare, toSquare, BISHOP), Move(fromSquare, toSquare, KNIGHT)>>
  ELSE <<Move(fromSquare, toSquare, null)>>

\* The moves of the piece on fromSquare to each square of its attack mask
pieceMovesFrom(b, fromSquare, toMask) ==
  With(scanReversed((attacksMask(b, fromSquare) \ b.occupiedCo[colorIdx(b.turn)])
                      \cap toMask), LAMBDA tos :
    [j \in 1..Len(tos) |-> Move(fromSquare, tos[j], null)])

\* The captures of the pawn on fromSquare
pawnCapturesFrom(b, fromSquare, toMask) ==
  With(scanReversed((BB_PAWN_ATTACKS[colorIdx(b.turn)][fromSquare]
                       \cap b.occupiedCo[colorIdx(~b.turn)]) \cap toMask), LAMBDA targets :
    Flatten([j \in 1..Len(targets) |-> pawnMoves(fromSquare, targets[j])]))

\* The pawn half of generatePseudoLegalMoves, after `if (!pawns) return`
generatePawnMoves(b, pawns, fromMask, toMask) ==
  With(scanReversed(pawns), LAMBDA capturers :
  With(IF b.turn = WHITE THEN shiftUp(pawns) \ b.occupied
       ELSE shiftDown(pawns) \ b.occupied, LAMBDA singleAll :
  With(scanReversed(singleAll \cap toMask), LAMBDA singleMoves :
  With(scanReversed(
         (IF b.turn = WHITE
          THEN (shiftUp(singleAll) \ b.occupied) \cap (BB_RANK_3 \cup BB_RANK_4)
          ELSE (shiftDown(singleAll) \ b.occupied) \cap (BB_RANK_6 \cup BB_RANK_5))
           \cap toMask), LAMBDA doubleMoves :
    Flatten([i \in 1..Len(capturers) |-> pawnCapturesFrom(b, capturers[i], toMask)])
      \o Flatten([i \in 1..Len(singleMoves) |->
           pawnMoves(singleMoves[i] + (IF b.turn = BLACK THEN 8 ELSE -8), singleMoves[i])])
      \o [i \in 1..Len(doubleMoves) |->
           Move(doubleMoves[i] + (IF b.turn = BLACK THEN 16 ELSE -16), doubleMoves[i], null)]
      \o (IF truthy(b.epSquare) THEN generatePseudoLegalEp(b, fromMask, toMask)
          ELSE <<>>)))))

generatePseudoLegalMoves(b, fromMask, toMask) ==
  With(scanReversed((b.occupiedCo[colorIdx(b.turn)] \ b.pawns) \cap fromMask),
       LAMBDA nonPawns :
  With((b.pawns \cap b.occupiedCo[colorIdx(b.turn)]) \cap fromMask, LAMBDA pawns :
    Flatten([i \in 1..Len(nonPawns) |-> pieceMovesFrom(b, nonPawns[i], toMask)])
      \o (IF fromMask \cap b.kings # {} THEN generateCastlingMoves(b, fromMask, toMask)
          ELSE <<>>)
      \o (IF pawns = {} THEN <<>> ELSE generatePawnMoves(b, pawns, fromMask, toMask))))

checkersMask(b) ==
  With(king(b, b.turn), LAMBDA k :
    IF k = null THEN BB_EMPTY ELSE attackersMask(b, ~b.turn, k))

isCheck(b) == checkersMask(b) # {}

_epSkewered(b, k, capturer) ==
  With(((b.occupied \ {b.epSquare + (IF b.turn = WHITE THEN -8 ELSE 8)}) \ {capturer})
         \cup {b.epSquare}, LAMBDA occupancy :
    \/ BB_RANK_ATTACKS(k, BB_RANK_MASKS[k] \cap occupancy)
         \cap (b.occupiedCo[colorIdx(~b.turn)] \cap (b.rooks \cup b.queens)) # {}
    \/ BB_DIAG_ATTACKS(k, BB_DIAG_MASKS[k] \cap occupancy)
         \cap (b.occupiedCo[colorIdx(~b.turn)] \cap (b.bishops \cup b.queens)) # {})

\* The piece standing alone between the king and a sniper, if there is one
blockerBefore(b, k, sniper) ==
  With(between(k, sniper) \cap b.occupied, LAMBDA bt :
    IF bt # {} /\ {msb(bt)} = bt THEN bt ELSE {})

_sliderBlockers(b, k) ==
  With(((RANK_RAYS[k] \cap (b.rooks \cup b.queens))
          \cup (FILE_RAYS[k] \cap (b.rooks \cup b.queens)))
         \cup (DIAG_RAYS[k] \cap (b.bishops \cup b.queens)), LAMBDA snipers :
    UNION {blockerBefore(b, k, sniper) : sniper \in snipers \cap b.occupiedCo[colorIdx(~b.turn)]}
      \cap b.occupiedCo[colorIdx(b.turn)])

_isSafe(b, k, blockers, move) ==
  IF move.fromSquare = k
  THEN IF isCastling(b, move) THEN TRUE
       ELSE ~isAttackedBy(b, ~b.turn, move.toSquare)
  ELSE IF isEnPassant(b, move)
  THEN move.toSquare \in pinMask(b, b.turn, move.fromSquare)
         /\ ~_epSkewered(b, k, move.fromSquare)
  ELSE move.fromSquare \notin blockers \/ k \in ray(move.fromSquare, move.toSquare)

\* A generator that does not filter out moves leaving the king attacked
generateLegalMovesUnfiltered(b, fromMask, toMask) ==
  generatePseudoLegalMoves(b, fromMask, toMask)

_generateEvasions(b, k, checkers, fromMask, toMask) ==
  With(UNION {ray(k, checker) \ {checker} :
                checker \in checkers \cap ((b.bishops \cup b.rooks) \cup b.queens)},
       LAMBDA attacked :
  With(IF k \in fromMask
       THEN scanReversed((((BB_KING_ATTACKS[k] \ b.occupiedCo[colorIdx(b.turn)]) \ attacked)
                            \cap toMask))
       ELSE <<>>, LAMBDA kingTos :
  With(msb(checkers), LAMBDA checker :
    [i \in 1..Len(kingTos) |-> Move(k, kingTos[i], null)]
      \o (IF {checker} = checkers
          THEN With(between(k, checker) \cup checkers, LAMBDA target :
                 generatePseudoLegalMoves(b, (BB_ALL \ b.kings) \cap fromMask,
                                          target \cap toMask)
                   \o (IF truthy(b.epSquare) /\ b.epSquare \notin target
                            /\ b.epSquare + (IF b.turn = WHITE THEN -8 ELSE 8) = checker
                       THEN generatePseudoLegalEp(b, fromMask, toMask)
                       ELSE <<>>))
          ELSE <<>>))))

generateLegalMoves(b, fromMask, toMask) ==
  IF isVariantEnd(b) THEN <<>>
  ELSE
    With(b.kings \cap b.occupiedCo[colorIdx(b.turn)], LAMBDA kingMask :
    With(msb(kingMask), LAMBDA k :
    With(_sliderBlockers(b, k), LAMBDA blockers :
    With(IF kingMask # {} THEN attackersMask(b, ~b.turn, k) ELSE {}, LAMBDA checkers :
    With(IF checkers # {} THEN _generateEvasions(b, k, checkers, fromMask, toMask)
         ELSE generatePseudoLegalMoves(b, fromMask, toMask), LAMBDA candidates :
      IF kingMask # {}
      THEN SelectSeq(candidates, LAMBDA move : _isSafe(b, k, blockers, move))
      ELSE candidates)))))

----------------------------------------------------------------------------
(* Board: the stack of snapshots, push and pop *)

\* new _BoardState(board)
\* A faulty snapshot that forgets the half-move clock.
_boardStateWithoutClock(b) ==
  [pawns |-> b.pawns, knights |-> b.knights, bishops |-> b.bishops,
   rooks |-> b.rooks, queens |-> b.queens, kings |-> b.kings,
   occupiedW |-> b.occupiedCo[colorIdx(WHITE)],
   occupiedB |-> b.occupiedCo[colorIdx(BLACK)],
   occupied |-> b.occupied, promoted |-> b.promoted, turn |-> b.turn,
   castlingRights |-> b.castlingRights, epSquare |-> b.epSquare,
   halfmoveClock |-> 0, fullmoveNumber |-> b.fullmoveNumber]

_boardState(b) ==
  [pawns |-> b.pawns, knights |-> b.knights, bishops |-> b.bishops,
   rooks |-> b.rooks, queens |-> b.queens, kings |-> b.kings,
   occupiedW |-> b.occupiedCo[colorIdx(WHITE)],
   occupiedB |-> b.occupiedCo[colorIdx(BLACK)],
   occupied |-> b.occupied, promoted |-> b.promoted, turn |-> b.turn,
   castlingRights |-> b.castlingRights, epSquare |-> b.epSquare,
   halfmoveClock |-> b.halfmoveClock, fullmoveNumber |-> b.fullmoveNumber]

\* A faulty restore that leaves the en passant square as push left it.
restoreWithoutEpSquare(state, b) ==
  [b EXCEPT
     !.pawns = state.pawns, !.knights = state.knights, !.bishops = state.bishops,
     !.rooks = state.rooks, !.queens = state.queens, !.kings = state.kings,
     !.occupiedCo = [c \in 0..1 |-> IF c = colorIdx(WHITE) THEN state.occupiedW
                                     ELSE state.occupiedB],
     !.occupied = state.occupied, !.promoted = state.promoted, !.turn = state.turn,
     !.castlingRights = state.castlingRights,
     !.halfmoveClock = state.halfmoveClock, !.fullmoveNumber = state.fullmoveNumber]

\* _BoardState.restore(board)
restore(state, b) ==
  [b EXCEPT
     !.pawns = state.pawns, !.knights = state.knights, !.bishops = state.bishops,
     !.rooks = state.rooks, !.queens = state.queens, !.kings = state.kings,
     !.occupiedCo = [c \in 0..1 |-> IF c = colorIdx(WHITE) THEN state.occupiedW
                                     ELSE state.occupiedB],
     !.occupied = state.occupied, !.promoted = state.promoted, !.turn = state.turn,
     !.castlingRights = state.castlingRights, !.epSquare = state.epSquare,
     !.halfmoveClock = state.halfmoveClock, !.fullmoveNumber = state.fullmoveNumber]

\* The castling branch of push: king and rook go to their castled squares.
pushCastling(b, move) ==
  With(squareFile(move.toSquare) < squareFile(move.fromSquare), LAMBDA aSide :
    _setPieceAt(
      _setPieceAt(_removePieceAt(_removePieceAt(b, move.fromSquare), move.toSquare),
                  IF aSide THEN (IF b.turn = WHITE THEN C1 ELSE C8)
                  ELSE (IF b.turn = WHITE THEN G1 ELSE G8),
                  KING, b.turn, FALSE),
      IF aSide THEN (IF b.turn = WHITE THEN D1 ELSE D8)
      ELSE (IF b.turn = WHITE THEN F1 ELSE F8),
      ROOK, b.turn, FALSE))

\* A faulty update in which the right travels with the rook.
updateCastlingRightsWithRook(b3, move, pieceType0, promoted0, capturedPieceType) ==
  IF pieceType0 = ROOK /\ move.fromSquare \in b3.castlingRights
  THEN (b3.castlingRights \ {move.fromSquare}) \cup {move.toSquare}
  ELSE (b3.castlingRights \ {move.toSquare}) \ {move.fromSquare}

\* A faulty update that clears the rights of the two squares of the move only.
updateCastlingRightsOfSquares(b3, move, pieceType0, promoted0, capturedPieceType) ==
  (b3.castlingRights \ {move.toSquare}) \ {move.fromSquare}

\* "Update castling rights" in push: the rights after the piece of type
\* pieceType0 has been lifted from move.fromSquare
updateCastlingRights(b3, move, pieceType0, promoted0, capturedPieceType) ==
  With((b3.castlingRights \ {move.toSquare}) \ {move.fromSquare}, LAMBDA cr1 :
    IF pieceType0 = KING /\ ~promoted0
    THEN IF b3.turn = WHITE THEN cr1 \ BB_RANK_1 ELSE cr1 \ BB_RANK_8
    ELSE IF capturedPieceType = KING /\ move.toSquare \notin b3.promoted
    THEN IF b3.turn = WHITE /\ squareRank(move.toSquare) = 7 THEN cr1 \ BB_RANK_8
         ELSE IF b3.turn = BLACK /\ squareRank(move.toSquare) = 0
         THEN cr1 \ BB_RANK_1
         ELSE cr1
    ELSE cr1)

\* A faulty rule that looks for the captured pawn on the ep square itself.
epCaptureSquareIsTarget(b, epSquare) == epSquare

\* "Remove pawns captured en passant" in push: captureSquare = epSquare + down
epCaptureSquare(b, epSquare) == epSquare + (IF b.turn = WHITE THEN -8 ELSE 8)

\* A faulty rule that takes the square the pawn arrives on.
doublePushEpSquareOfArrival(move) ==
  IF move.toSquare - move.fromSquare = 16 /\ squareRank(move.fromSquare) = 1
  THEN move.toSquare
  ELSE IF move.toSquare - move.fromSquare = -16 /\ squareRank(move.fromSquare) = 6
  THEN move.toSquare
  ELSE null

\* "Handle special pawn moves" in push: the en passant square a pawn move
\* sets, null when it is no double push from the second or seventh rank
doublePushEpSquare(move) ==
  IF move.toSquare - move.fromSquare = 16 /\ squareRank(move.fromSquare) = 1
  THEN move.fromSquare + 8
  ELSE IF move.toSquare - move.fromSquare = -16 /\ squareRank(move.fromSquare) = 6
  THEN move.fromSquare - 8
  ELSE null

\* push from the piece's removal on (the move is neither null nor a drop).
pushPiece(b2, move, epSquare) ==
  With(move.fromSquare \in b2.promoted, LAMBDA promoted0 :
  With(pieceTypeAt(b2, move.fromSquare), LAMBDA pieceType0 :
  With(_removePieceAt(b2, move.fromSquare), LAMBDA b3 :
    \* `throw new Error('ValueError: push() expects move to be pseudo-legal')`
    \* leaves the board as mutated so far.
    IF pieceType0 = null THEN b3
    ELSE
      With(pieceTypeAt(b3, move.toSquare), LAMBDA capturedPieceType :
      With([b3 EXCEPT !.castlingRights =
              updateCastlingRights(b3, move, pieceType0, promoted0, capturedPieceType)],
           LAMBDA b4 :
      With(move.toSquare - move.fromSquare, LAMBDA diff :
      With(IF pieceType0 # PAWN THEN b4
           ELSE IF doublePushEpSquare(move) # null
           THEN [b4 EXCEPT !.epSquare = doublePushEpSquare(move)]
           ELSE IF move.toSquare = epSquare /\ Abs(diff) \in {7, 9}
                     /\ capturedPieceType = null
           THEN _removePieceAt(b4, epCaptureSquare(b4, epSquare))
           ELSE b4, LAMBDA b5 :
      With(IF move.promotion # null THEN move.promotion ELSE pieceType0, LAMBDA pieceType :
        [(IF pieceType = KING /\ move.toSquare \in b5.occupiedCo[colorIdx(b5.turn)]
          THEN pushCastling(b5, move)
          ELSE _setPieceAt(b5, move.toSquare, pieceType, b5.turn,
                           IF move.promotion # null THEN TRUE ELSE promoted0))
           EXCEPT !.turn = ~@]))))))))

push(b0, move0) ==
  With(_toChess960(b0, move0), LAMBDA move :
  With([b0 EXCEPT
          !.castlingRights = cleanCastlingRights(b0),
          !.moveStack = Append(@, _fromChess960(b0, b0.chess960, move.fromSquare,
                                                move.toSquare, move.promotion, move.drop)),
          !.stack = Append(@, _boardState(b0)),
          !.epSquare = null,
          !.halfmoveClock = @ + 1,
          !.fullmoveNumber = IF b0.turn = BLACK THEN @ + 1 ELSE @], LAMBDA b1 :
    IF ~moveBool(move) THEN [b1 EXCEPT !.turn = ~@]
    ELSE IF move.drop # null
    THEN [_setPieceAt(b1, move.toSquare, move.drop, b1.turn, FALSE) EXCEPT !.turn = ~@]
    ELSE pushPiece(IF isZeroing(b1, move) THEN [b1 EXCEPT !.halfmoveClock = 0] ELSE b1,
                   move, b0.epSquare)))

\* pop() throws IndexError on an empty stack; guarded by its callers here.
pop(b) ==
  [restore(b.stack[Len(b.stack)], b) EXCEPT
     !.moveStack = SubSeq(@, 1, Len(@) - 1),
     !.stack = SubSeq(@, 1, Len(@) - 1)]

peek(b) == b.moveStack[Len(b.moveStack)]

\* pop() with its check: [ok, board, move]; ok is FALSE where it throws
\* Error('IndexError'), before anything is written.
tryPop(b) ==
  IF Len(b.moveStack) = 0 \/ Len(b.stack) = 0
    THEN [ok |-> FALSE, board |-> b, move |-> MoveNull]
    ELSE [ok |-> TRUE, board |-> pop(b), move |-> b.moveStack[Len(b.moveStack)]]

\* A peek() that reads beyond an empty array instead of throwing.
tryPeekUnchecked(b) ==
  [ok |-> TRUE, move |-> IF Len(b.moveStack) = 0 THEN MoveNull ELSE peek(b)]

\* peek() with its check: [ok, move]
tryPeek(b) ==
  IF Len(b.moveStack) = 0 THEN [ok |-> FALSE, move |-> MoveNull]
  ELSE [ok |-> TRUE, move |-> peek(b)]

----------------------------------------------------------------------------
(* Board: legality of a given move, UCI *)

wasIntoCheck(b) ==
  With(king(b, ~b.turn), LAMBDA k : k # null /\ isAttackedBy(b, b.turn, k))

isIntoCheck(b, move) ==
  With(king(b, b.turn), LAMBDA k :
    IF k = null THEN FALSE
    ELSE
      With(attackersMask(b, ~b.turn, k), LAMBDA checkers :
        IF checkers # {}
             /\ ~iterIncludes(_generateEvasions(b, k, checkers, {move.fromSquare},
                                                {move.toSquare}), move)
        THEN TRUE
        ELSE ~_isSafe(b, k, _sliderBlockers(b, k), move)))

isPseudoLegal(b, move0) ==
  With(pieceTypeAt(b, move0.fromSquare), LAMBDA piece :
  \* `move = this._fromChess960(...)` for a king, a new object
  With(IF piece = KING
       THEN _fromChess960(b, b.chess960, move0.fromSquare, move0.toSquare, null, null)
       ELSE move0, LAMBDA move :
    IF ~moveBool(move0) THEN FALSE
    ELSE IF move0.drop # null THEN FALSE
    ELSE IF piece = null THEN FALSE
    ELSE IF b.occupiedCo[colorIdx(b.turn)] \cap {move0.fromSquare} = {} THEN FALSE
    ELSE IF move0.promotion # null /\ piece # PAWN THEN FALSE
    ELSE IF move0.promotion # null /\ b.turn = WHITE /\ squareRank(move0.toSquare) # 7
    THEN FALSE
    ELSE IF move0.promotion # null /\ b.turn = BLACK /\ squareRank(move0.toSquare) # 0
    THEN FALSE
    ELSE IF piece = KING /\ iterIncludes(generateCastlingMoves(b, BB_ALL, BB_ALL), move)
    THEN TRUE
    ELSE IF b.occupiedCo[colorIdx(b.turn)] \cap {move0.toSquare} # {} THEN FALSE
    ELSE IF piece = PAWN
    THEN iterIncludes(generatePseudoLegalMoves(b, {move0.fromSquare}, {move0.toSquare}),
                      move)
    ELSE attacksMask(b, move.fromSquare) \cap {move0.toSquare} # {}))

isLegal(b, move) ==
  ~isVariantEnd(b) /\ isPseudoLegal(b, move) /\ ~isIntoCheck(b, move)

\* [ok, move]: ok is FALSE where the source throws IllegalMoveError.
findMove(b, fromSquare, toSquare, promotion0) ==
  With(_fromChess960(b, b.chess960, fromSquare, toSquare,
                     IF promotion0 = null /\ fromSquare \in b.pawns
                          /\ toSquare \in BB_BACKRANKS
                     THEN QUEEN ELSE promotion0,
                     null), LAMBDA move :
    [ok |-> isLegal(b, move), move |-> move])

\* Move.uci()
moveUci(m) ==
  IF m.drop # null /\ m.drop # 0
  THEN <<toUpperCase(pieceSymbol(m.drop)), "@">> \o SQUARE_NAMES(m.toSquare)
  ELSE IF m.promotion # null /\ m.promotion # 0
  THEN SQUARE_NAMES(m.fromSquare) \o SQUARE_NAMES(m.toSquare) \o <<pieceSymbol(m.promotion)>>
  ELSE IF moveBool(m) THEN SQUARE_NAMES(m.fromSquare) \o SQUARE_NAMES(m.toSquare)
  ELSE <<"0", "0", "0", "0">>

\* Move.fromUci(uci); [ok, move]: ok is FALSE where the source throws InvalidMoveError.
fromUci(uci) ==
  IF uci = <<"0", "0", "0", "0">> THEN [ok |-> TRUE, move |-> MoveNull]
  ELSE IF Len(uci) = 4 /\ uci[2] = "@"
  THEN LET drop == indexOf(PIECE_SYMBOLS, toLowerCase(uci[1]))
           sq == parseSquareName(SubSeq(uci, 3, 4))
       IN  IF drop = -1 \/ sq = -1 THEN [ok |-> FALSE, move |-> MoveNull]
           ELSE [ok |-> TRUE,
                 move |-> [fromSquare |-> sq, toSquare |-> sq, promotion |-> null,
                           drop |-> drop, ref |-> 0]]
  ELSE IF 4 <= Len(uci) /\ Len(uci) <= 5
  THEN LET fromSquare == parseSquareName(SubSeq(uci, 1, 2))
           toSquare == parseSquareName(SubSeq(uci, 3, 4))
           promotion == IF Len(uci) = 5 THEN indexOf(PIECE_SYMBOLS, uci[5]) ELSE null
       IN  IF fromSquare = -1 \/ toSquare = -1 \/ (Len(uci) = 5 /\ promotion = -1)
           THEN [ok |-> FALSE, move |-> MoveNull]
           ELSE IF fromSquare = toSquare THEN [ok |-> FALSE, move |-> MoveNull]
           ELSE [ok |-> TRUE, move |-> Move(fromSquare, toSquare, promotion)]
  ELSE [ok |-> FALSE, move |-> MoveNull]

\* Board.uci(move) with the board's own chess960 mode
uci(b, move0) ==
  With(_toChess960(b, move0), LAMBDA move :
    moveUci(_fromChess960(b, b.chess960, move.fromSquare, move.toSquare,
                          move.promotion, move.drop)))

\* [ok, move]: ok is FALSE where the source throws InvalidMoveError or IllegalMoveError.
parseUci(b, str) ==
  With(fromUci(str), LAMBDA parsed :
    IF ~parsed.ok THEN [ok |-> FALSE, move |-> MoveNull]
    ELSE
      With(_toChess960(b, parsed.move), LAMBDA move1 :
      With(_fromChess960(b, b.chess960, move1.fromSquare, move1.toSquare,
                         move1.promotion, move1.drop), LAMBDA move :
        [ok |-> isLegal(b, move), move |-> move])))

\* [ok, board]: parseUci then push
pushUci(b, str) ==
  With(parseUci(b, str), LAMBDA parsed :
    IF parsed.ok THEN [ok |-> TRUE, board |-> push(b, parsed.move)]
    ELSE [ok |-> FALSE, board |-> b])

----------------------------------------------------------------------------
(* Board: standard algebraic notation *)

piecesMask(b, pieceType, color) ==
  (CASE pieceType = PAWN -> b.pawns
     [] pieceType = KNIGHT -> b.knights
     [] pieceType = BISHOP -> b.bishops
     [] pieceType = ROOK -> b.rooks
     [] pieceType = QUEEN -> b.queens
     [] pieceType = KING -> b.kings) \cap b.occupiedCo[colorIdx(color)]

isCheckmate(b) ==
  IF ~isCheck(b) THEN FALSE
  ELSE ~iterAny(generateLegalMoves(b, BB_ALL, BB_ALL))

isStalemate(b) ==
  IF isCheck(b) THEN FALSE
  ELSE IF isVariantEnd(b) THEN FALSE
  ELSE ~iterAny(generateLegalMoves(b, BB_ALL, BB_ALL))

\* A faulty test that compares ranks where the source compares files.
isKingsideCastlingByRank(b, move) ==
  isCastling(b, move) /\ squareRank(move.toSquare) > squareRank(move.fromSquare)

isKingsideCastling(b, move) ==
  isCastling(b, move) /\ squareFile(move.toSquare) > squareFile(move.fromSquare)

isQueensideCastling(b, move) ==
  isCastling(b, move) /\ squareFile(move.toSquare) < squareFile(move.fromSquare)

\* Truthiness of an object reference (`!move` on a Move): true for every object.
objectTruthy(obj) == TRUE

\* [ok, san]: ok is FALSE where the source throws (no piece on the from square).
_algebraicWithoutSuffix(b, move, long) ==
  LET pieceType == pieceTypeAt(b, move.fromSquare)
      capture == isCapture(b, move)
      letter == IF pieceType = PAWN THEN <<>> ELSE <<toUpperCase(pieceSymbol(pieceType))>>
      candidates ==
        generateLegalMoves(b, piecesMask(b, pieceType, b.turn) \ {move.fromSquare},
                           {move.toSquare})
      others == {candidates[i].fromSquare : i \in 1..Len(candidates)}
      column == others \cap BB_RANKS(squareRank(move.fromSquare)) # {}
                  \/ others \cap BB_FILES(squareFile(move.fromSquare)) = {}
      row == others \cap BB_FILES(squareFile(move.fromSquare)) # {}
      origin ==
        IF long THEN SQUARE_NAMES(move.fromSquare)
        ELSE IF pieceType # PAWN
        THEN IF others # {}
             THEN (IF column THEN <<FILE_NAMES[squareFile(move.fromSquare) + 1]>> ELSE <<>>)
                    \o (IF row THEN <<RANK_NAMES[squareRank(move.fromSquare) + 1]>> ELSE <<>>)
             ELSE <<>>
        ELSE IF capture THEN <<FILE_NAMES[squareFile(move.fromSquare) + 1]>>
        ELSE <<>>
      separator == IF capture THEN <<"x">> ELSE IF long THEN <<"-">> ELSE <<>>
      promotion ==
        IF move.promotion # null /\ move.promotion # 0
        THEN <<"=", toUpperCase(pieceSymbol(move.promotion))>> ELSE <<>>
  IN
  IF ~objectTruthy(move) THEN [ok |-> TRUE, san |-> <<"-", "-">>]
  ELSE IF move.drop # null /\ move.drop # 0
  THEN [ok |-> TRUE,
        san |-> (IF move.drop # PAWN THEN <<toUpperCase(pieceSymbol(move.drop))>> ELSE <<>>)
                  \o <<"@">> \o SQUARE_NAMES(move.toSquare)]
  ELSE IF isCastling(b, move)
  THEN IF squareFile(move.toSquare) < squareFile(move.fromSquare)
       THEN [ok |-> TRUE, san |-> <<"O", "-", "O", "-", "O">>]
       ELSE [ok |-> TRUE, san |-> <<"O", "-", "O">>]
  ELSE IF pieceType = null THEN [ok |-> FALSE, san |-> <<>>]
  ELSE [ok |-> TRUE,
        san |-> letter \o origin \o separator \o SQUARE_NAMES(move.toSquare) \o promotion]

\* [ok, san, board]: the notation with its check suffix, and the board after the push.
_algebraicAndPush(b, move, long) ==
  LET plain == _algebraicWithoutSuffix(b, move, long)
      pushed == push(b, move)
      check == isCheck(pushed)
      checkmate == check /\ isCheckmate(pushed)
  IN
  IF ~plain.ok THEN [ok |-> FALSE, san |-> <<>>, board |-> b]
  ELSE IF checkmate /\ moveBool(move)
  THEN [ok |-> TRUE, san |-> plain.san \o <<"#">>, board |-> pushed]
  ELSE IF check /\ moveBool(move)
  THEN [ok |-> TRUE, san |-> plain.san \o <<"+">>, board |-> pushed]
  ELSE [ok |-> TRUE, san |-> plain.san, board |-> pushed]

\* [ok, san, board]: _algebraicAndPush, then pop
_algebraic(b, move, long) ==
  LET r == _algebraicAndPush(b, move, long)
  IN  IF r.ok THEN [r EXCEPT !.board = pop(r.board)] ELSE r

san(b, move) == _algebraic(b, move, FALSE)

lan(b, move) == _algebraic(b, move, TRUE)

\* The character class [\\-x] of SAN_REGEX: the range from the backslash to x.
\* (the grave accent, U+0060, is written "grave": it cannot stand in a string)
SAN_SEPARATOR_CLASS ==
  {"\\", "]", "^", "_", "grave"} \cup {LOWER[i] : i \in 1..24}

\* The character class [\\+#] of SAN_REGEX
SAN_SUFFIX_CLASS == {"\\", "+", "#"}

\* str[i - 1] in the source's indexing, "" beyond the ends
charAt(str, i) == IF i >= 1 /\ i <= Len(str) THEN str[i] ELSE ""

\* Where each item of SAN_REGEX starts on the path c: file, rank, separator,
\* destination, promotion group, suffix, end.
sanRegexPositions(c) ==
  <<1 + c[1],
    1 + c[1] + c[2],
    1 + c[1] + c[2] + c[3],
    1 + c[1] + c[2] + c[3] + c[4],
    3 + c[1] + c[2] + c[3] + c[4],
    3 + c[1] + c[2] + c[3] + c[4] + c[5] * (1 + c[6]),
    3 + c[1] + c[2] + c[3] + c[4] + c[5] * (1 + c[6]) + c[7]>>

\* One way through SAN_REGEX, c[i] = 1 where the i-th optional item takes a
\* character: piece letter, file, rank, separator, promotion group, its "=",
\* suffix.  [ok, groups 1..5] with <<>> for a group that did not take part.
sanRegexPath(str, c) ==
  With(sanRegexPositions(c), LAMBDA p :
  With(/\ c[1] = 1 => charAt(str, 1) \in {"N", "B", "K", "R", "Q"}
       /\ c[2] = 1 => indexOf(FILE_NAMES, charAt(str, p[1])) # -1
       /\ c[3] = 1 => indexOf(RANK_NAMES, charAt(str, p[2])) # -1
       /\ c[4] = 1 => charAt(str, p[3]) \in SAN_SEPARATOR_CLASS
       /\ indexOf(FILE_NAMES, charAt(str, p[4])) # -1
       /\ indexOf(RANK_NAMES, charAt(str, p[4] + 1)) # -1
       /\ c[5] = 0 => c[6] = 0
       /\ c[6] = 1 => charAt(str, p[5]) = "="
       /\ c[5] = 1 => charAt(str, p[5] + c[6])
                        \in {"n", "b", "r", "q", "k", "N", "B", "R", "Q", "K"}
       /\ c[7] = 1 => charAt(str, p[6]) \in SAN_SUFFIX_CLASS
       /\ p[7] = Len(str) + 1, LAMBDA ok :
    [ok |-> ok,
     g1 |-> IF c[1] = 1 THEN <<charAt(str, 1)>> ELSE <<>>,
     g2 |-> IF c[2] = 1 THEN <<charAt(str, p[1])>> ELSE <<>>,
     g3 |-> IF c[3] = 1 THEN <<charAt(str, p[2])>> ELSE <<>>,
     g4 |-> <<charAt(str, p[4]), charAt(str, p[4] + 1)>>,
     g5 |-> IF ok /\ c[5] = 1 THEN SubSeq(str, p[5], p[6] - 1) ELSE <<>>]))

\* The rank of a path in the order a backtracking matcher tries them: every
\* optional item is greedy, so taking comes before skipping, leftmost first.
sanRegexRank(c) ==
  64 * c[1] + 32 * c[2] + 16 * c[3] + 8 * c[4] + 4 * c[5] + 2 * c[6] + c[7]

\* san.match(SAN_REGEX): [ok, g1..g5], the first path that matches
sanRegexMatch(str) ==
  With({c \in [1..7 -> {0, 1}] : sanRegexPath(str, c).ok}, LAMBDA paths :
    IF paths = {} THEN [ok |-> FALSE, g1 |-> <<>>, g2 |-> <<>>, g3 |-> <<>>,
                        g4 |-> <<>>, g5 |-> <<>>]
    ELSE sanRegexPath(str,
           CHOOSE c \in paths : \A d \in paths : sanRegexRank(d) <= sanRegexRank(c)))

\* parseSan past the castling strings and the regular expression: match is the
\* successful match of SAN_REGEX.
parseSanMatch(b, match) ==
  With(parseSquareName(match.g4), LAMBDA toSquare :
  With(IF match.g5 # <<>>
       THEN indexOf(PIECE_SYMBOLS, toLowerCase(match.g5[Len(match.g5)]))
       ELSE null, LAMBDA promotion :
    IF match.g1 = <<>> /\ match.g2 # <<>> /\ match.g3 # <<>>
    THEN With(findMove(b, square(indexOf(FILE_NAMES, match.g2[1]),
                                 indexOf(DIGITS, match.g3[1]) - 1),
                       toSquare, promotion), LAMBDA found :
           IF ~found.ok THEN [ok |-> FALSE, err |-> "IllegalMoveError", move |-> MoveNull]
           ELSE IF found.move.promotion = promotion
           THEN [ok |-> TRUE, err |-> "", move |-> found.move]
           ELSE [ok |-> FALSE, err |-> "IllegalMoveError", move |-> MoveNull])
    ELSE
      With(IF match.g2 # <<>> THEN BB_FILES(indexOf(FILE_NAMES, match.g2[1]))
           ELSE BB_ALL, LAMBDA mask1 :
      With(IF match.g3 # <<>> THEN mask1 \cap BB_RANKS(indexOf(DIGITS, match.g3[1]) - 1)
           ELSE mask1, LAMBDA mask2 :
      With(IF match.g1 # <<>>
           THEN mask2 \cap piecesMask(b, indexOf(PIECE_SYMBOLS, toLowerCase(match.g1[1])),
                                       b.turn)
           ELSE IF match.g2 = <<>>
           THEN (mask2 \cap b.pawns) \cap BB_FILES(squareFile(toSquare))
           ELSE mask2 \cap b.pawns, LAMBDA fromMask :
      With(SelectSeq(generateLegalMoves(b, fromMask,
                                        {toSquare} \ b.occupiedCo[colorIdx(b.turn)]),
                     LAMBDA move : move.promotion = promotion), LAMBDA matching :
        IF Len(matching) > 1
        THEN [ok |-> FALSE, err |-> "AmbiguousMoveError", move |-> MoveNull]
        ELSE IF Len(matching) = 0
        THEN [ok |-> FALSE, err |-> "IllegalMoveError", move |-> MoveNull]
        ELSE [ok |-> TRUE, err |-> "", move |-> matching[1]]))))))

\* The first castling move of a side, or IllegalMoveError
firstCastling(moves) ==
  IF moves = <<>> THEN [ok |-> FALSE, err |-> "IllegalMoveError", move |-> MoveNull]
  ELSE [ok |-> TRUE, err |-> "", move |-> moves[1]]

\* [ok, err, move]: err names the error the source throws when ok is FALSE.
parseSan(b, str) ==
  With(generateCastlingMoves(b, BB_ALL, BB_ALL), LAMBDA castlingMoves :
    IF str \in {<<"O", "-", "O">>, <<"O", "-", "O", "+">>, <<"O", "-", "O", "#">>,
                <<"0", "-", "0">>, <<"0", "-", "0", "+">>, <<"0", "-", "0", "#">>}
    THEN firstCastling(SelectSeq(castlingMoves, LAMBDA move : isKingsideCastling(b, move)))
    ELSE IF str \in {<<"O", "-", "O", "-", "O">>, <<"O", "-", "O", "-", "O", "+">>,
                     <<"O", "-", "O", "-", "O", "#">>, <<"0", "-", "0", "-", "0">>,
                     <<"0", "-", "0", "-", "0", "+">>, <<"0", "-", "0", "-", "0", "#">>}
    THEN firstCastling(SelectSeq(castlingMoves, LAMBDA move : isQueensideCastling(b, move)))
    ELSE
      With(sanRegexMatch(str), LAMBDA match :
        IF ~match.ok
        THEN IF str \in {<<"-", "-">>, <<"Z", "0">>, <<"0", "0", "0", "0">>,
                         <<"@", "@", "@", "@">>}
             THEN [ok |-> TRUE, err |-> "", move |-> MoveNull]
             ELSE [ok |-> FALSE, err |-> "InvalidMoveError", move |-> MoveNull]
        ELSE parseSanMatch(b, match)))

\* [ok, board]: parseSan then push
pushSan(b, str) ==
  With(parseSan(b, str), LAMBDA parsed :
    IF parsed.ok THEN [ok |-> TRUE, board |-> push(b, parsed.move)]
    ELSE [ok |-> FALSE, board |-> b])

----------------------------------------------------------------------------
(* Board: validity status *)

\* a ^ b on square indices (six bits)
squareXor(a, b) ==
  LET bit(n, i) == (n \div (2 ^ i)) % 2
      weight(i) == IF bit(a, i) # bit(b, i) THEN 2 ^ i ELSE 0
  IN  weight(0) + weight(1) + weight(2) + weight(3) + weight(4) + weight(5)

_validEpSquare(b) ==
  LET epRank == IF b.turn = WHITE THEN 5 ELSE 2
      pawnMask == IF b.turn = WHITE THEN shiftDown({b.epSquare}) ELSE shiftUp({b.epSquare})
      seventhRankMask ==
        IF b.turn = WHITE THEN shiftUp({b.epSquare}) ELSE shiftDown({b.epSquare})
  IN
  IF ~truthy(b.epSquare) THEN null
  ELSE IF squareRank(b.epSquare) # epRank THEN null
  ELSE IF (b.pawns \cap b.occupiedCo[colorIdx(~b.turn)]) \cap pawnMask = {} THEN null
  ELSE IF b.epSquare \in b.occupied THEN null
  ELSE IF b.occupied \cap seventhRankMask # {} THEN null
  ELSE b.epSquare

\* The set of Status flags that status() ors together; {} is STATUS_VALID.
status(b) ==
  LET white == b.occupiedCo[colorIdx(WHITE)]
      black == b.occupiedCo[colorIdx(BLACK)]
      validEpSquare == _validEpSquare(b)
      checkers == checkersMask(b)
      ourKings == (b.kings \cap b.occupiedCo[colorIdx(b.turn)]) \ b.promoted
      pushedTo == squareXor(validEpSquare, A2)
      pushedFrom == squareXor(validEpSquare, A4)
      occupiedBefore == (b.occupied \ {pushedTo}) \cup {pushedFrom}
      impossibleCheck ==
        IF validEpSquare # null
        THEN \/ popcount(checkers) > 1
             \/ msb(checkers) # pushedTo /\ _attackedForKing(b, ourKings, occupiedBefore)
        ELSE \/ popcount(checkers) > 2
             \/ popcount(checkers) = 2
                  /\ ray(lsb(checkers), msb(checkers)) \cap ourKings # {}
  IN
  (IF b.occupied = {} THEN {"EMPTY"} ELSE {})
    \cup (IF white \cap b.kings = {} THEN {"NO_WHITE_KING"} ELSE {})
    \cup (IF black \cap b.kings = {} THEN {"NO_BLACK_KING"} ELSE {})
    \cup (IF popcount(b.occupied \cap b.kings) > 2 THEN {"TOO_MANY_KINGS"} ELSE {})
    \cup (IF popcount(white) > 16 THEN {"TOO_MANY_WHITE_PIECES"} ELSE {})
    \cup (IF popcount(black) > 16 THEN {"TOO_MANY_BLACK_PIECES"} ELSE {})
    \cup (IF popcount(white \cap b.pawns) > 8 THEN {"TOO_MANY_WHITE_PAWNS"} ELSE {})
    \cup (IF popcount(black \cap b.pawns) > 8 THEN {"TOO_MANY_BLACK_PAWNS"} ELSE {})
    \cup (IF b.pawns \cap BB_BACKRANKS # {} THEN {"PAWNS_ON_BACKRANK"} ELSE {})
    \cup (IF b.castlingRights # cleanCastlingRights(b) THEN {"BAD_CASTLING_RIGHTS"} ELSE {})
    \cup (IF b.epSquare # validEpSquare THEN {"INVALID_EP_SQUARE"} ELSE {})
    \cup (IF wasIntoCheck(b) THEN {"OPPOSITE_CHECK"} ELSE {})
    \cup (IF checkers # {} /\ popcount(checkers) > 2 THEN {"TOO_MANY_CHECKERS"} ELSE {})
    \cup (IF checkers # {} /\ impossibleCheck THEN {"IMPOSSIBLE_CHECK"} ELSE {})

STATUS_VALID == {}

isValid(b) == status(b) = STATUS_VALID

----------------------------------------------------------------------------
(* Board: repetitions, the fifty-move rule and the outcome *)

generateLegalEp(b, fromMask, toMask) ==
  IF isVariantEnd(b) THEN <<>>
  ELSE SelectSeq(generatePseudoLegalEp(b, fromMask, toMask),
                 LAMBDA move : ~isIntoCheck(b, move))

hasPseudoLegalEnPassant(b) ==
  b.epSquare # null /\ iterAny(generatePseudoLegalEp(b, BB_ALL, BB_ALL))

hasLegalEnPassant(b) ==
  b.epSquare # null /\ iterAny(generateLegalEp(b, BB_ALL, BB_ALL))

_reducesCastlingRights(b, move) ==
  LET cr == cleanCastlingRights(b)
      touched == Xor({move.fromSquare}, {move.toSquare})
  IN  \/ touched \cap cr # {}
      \/ /\ cr \cap BB_RANK_1 # {}
         /\ ((touched \cap b.kings) \cap b.occupiedCo[colorIdx(WHITE)]) \ b.promoted # {}
      \/ /\ cr \cap BB_RANK_8 # {}
         /\ ((touched \cap b.kings) \cap b.occupiedCo[colorIdx(BLACK)]) \ b.promoted # {}

\* A faulty test that takes every move for irreversible.
isIrreversibleAlways(b, move) == TRUE

isIrreversible(b, move) ==
  isZeroing(b, move) \/ _reducesCastlingRights(b, move) \/ hasLegalEnPassant(b)

\* The KEY array whose items _transpositionKey concatenates into one bigint
\* (each item in its own fixed-width field, so equal keys are equal arrays).
_transpositionKey(b) ==
  <<b.pawns, b.knights, b.bishops, b.rooks, b.queens, b.kings,
    b.occupiedCo[colorIdx(WHITE)], b.occupiedCo[colorIdx(BLACK)], b.turn,
    cleanCastlingRights(b), IF hasLegalEnPassant(b) THEN b.epSquare ELSE 0>>

\* The keys that the first loop of canClaimThreefoldRepetition counts, popping
\* until the move stack is empty or an irreversible move was taken back.
RECURSIVE poppedKeys(_)
poppedKeys(b) ==
  IF Len(b.moveStack) = 0 THEN <<>>
  ELSE IF isIrreversible(pop(b), peek(b)) THEN <<>>
  ELSE <<_transpositionKey(pop(b))>> \o poppedKeys(pop(b))

\* Counter.get(key), undefined (never >= n) shown as 0
counterGet(keys, key) == Cardinality({i \in 1..Len(keys) : keys[i] = key})

canClaimThreefoldRepetition(b) ==
  LET transpositionKey == _transpositionKey(b)
      transpositions == <<transpositionKey>> \o poppedKeys(b)
      moves == generateLegalMoves(b, BB_ALL, BB_ALL)
  IN  \/ counterGet(transpositions, transpositionKey) >= 3
      \/ \E i \in 1..Len(moves) :
           counterGet(transpositions, _transpositionKey(push(b, moves[i]))) >= 2

\* The full replay loop of isRepetition
RECURSIVE replay(_, _, _)
replay(b, transpositionKey, count) ==
  IF count <= 1 THEN TRUE
  ELSE IF Len(b.moveStack) < count - 1 THEN FALSE
  ELSE IF isIrreversible(pop(b), peek(b)) THEN FALSE
  ELSE replay(pop(b), transpositionKey,
              IF _transpositionKey(pop(b)) = transpositionKey THEN count - 1 ELSE count)

isRepetition(b, count) ==
  LET seen == Cardinality({i \in 1..Len(b.stack) : b.stack[i].occupied = b.occupied})
      \* the fast loop counts up from 1 and stops once it reaches count
      maybeRepetitions == IF 1 + seen >= count THEN Max(count, 1) ELSE 1 + seen
  IN  IF maybeRepetitions < count THEN FALSE
      ELSE replay(b, _transpositionKey(b), count)

isFivefoldRepetition(b) == isRepetition(b, 5)

_isHalfmoves(b, n) ==
  b.halfmoveClock >= n /\ iterAny(generateLegalMoves(b, BB_ALL, BB_ALL))

isSeventyfiveMoves(b) == _isHalfmoves(b, 150)

isFiftyMoves(b) == _isHalfmoves(b, 100)

canClaimFiftyMoves(b) ==
  LET moves == generatePseudoLegalMoves(b, BB_ALL, BB_ALL)
  IN  \/ isFiftyMoves(b)
      \/ /\ b.halfmoveClock >= 99
         /\ \E i \in 1..Len(moves) :
              ~isZeroing(b, moves[i]) /\ isFiftyMoves(push(b, moves[i]))

canClaimDraw(b) == canClaimFiftyMoves(b) \/ canClaimThreefoldRepetition(b)

hasInsufficientMaterial(b, color) ==
  LET own == b.occupiedCo[colorIdx(color)]
      sameColor == b.bishops \cap BB_DARK_SQUARES = {} \/ b.bishops \cap BB_LIGHT_SQUARES = {}
  IN
  IF own \cap ((b.pawns \cup b.rooks) \cup b.queens) # {} THEN FALSE
  ELSE IF own \cap b.knights # {}
  THEN popcount(own) <= 2
         /\ (b.occupiedCo[colorIdx(~color)] \ b.kings) \ b.queens = {}
  ELSE IF own \cap b.bishops # {}
  THEN sameColor /\ b.pawns = {} /\ b.knights = {}
  ELSE TRUE

isInsufficientMaterial(b) ==
  \A i \in 1..Len(COLORS) : hasInsufficientMaterial(b, COLORS[i])

isVariantLoss(b) == FALSE
isVariantWin(b) == FALSE
isVariantDraw(b) == FALSE

\* An Outcome as [termination, winner]; the null outcome has termination "null".
Outcome(termination, winner) == [termination |-> termination, winner |-> winner]

\* winner is "white", "black" or "null"
colorName(color) == IF color = WHITE THEN "white" ELSE "black"

\* A faulty order that looks at the claimable draws before the automatic ones.
outcomeClaimsFirst(b, claimDraw) ==
  IF isCheckmate(b) THEN Outcome("CHECKMATE", colorName(~b.turn))
  ELSE IF isInsufficientMaterial(b) THEN Outcome("INSUFFICIENT_MATERIAL", "null")
  ELSE IF ~iterAny(generateLegalMoves(b, BB_ALL, BB_ALL)) THEN Outcome("STALEMATE", "null")
  ELSE IF claimDraw /\ canClaimFiftyMoves(b) THEN Outcome("FIFTY_MOVES", "null")
  ELSE IF claimDraw /\ canClaimThreefoldRepetition(b)
  THEN Outcome("THREEFOLD_REPETITION", "null")
  ELSE IF isSeventyfiveMoves(b) THEN Outcome("SEVENTYFIVE_MOVES", "null")
  ELSE IF isFivefoldRepetition(b) THEN Outcome("FIVEFOLD_REPETITION", "null")
  ELSE Outcome("null", "null")

outcome(b, claimDraw) ==
  IF isVariantLoss(b) THEN Outcome("VARIANT_LOSS", colorName(~b.turn))
  ELSE IF isVariantWin(b) THEN Outcome("VARIANT_WIN", colorName(b.turn))
  ELSE IF isVariantDraw(b) THEN Outcome("VARIANT_DRAW", "null")
  ELSE IF isCheckmate(b) THEN Outcome("CHECKMATE", colorName(~b.turn))
  ELSE IF isInsufficientMaterial(b) THEN Outcome("INSUFFICIENT_MATERIAL", "null")
  ELSE IF ~iterAny(generateLegalMoves(b, BB_ALL, BB_ALL)) THEN Outcome("STALEMATE", "null")
  ELSE IF isSeventyfiveMoves(b) THEN Outcome("SEVENTYFIVE_MOVES", "null")
  ELSE IF isFivefoldRepetition(b) THEN Outcome("FIVEFOLD_REPETITION", "null")
  ELSE IF claimDraw /\ canClaimFiftyMoves(b) THEN Outcome("FIFTY_MOVES", "null")
  ELSE IF claimDraw /\ canClaimThreefoldRepetition(b)
  THEN Outcome("THREEFOLD_REPETITION", "null")
  ELSE Outcome("null", "null")

----------------------------------------------------------------------------
(* FEN parsing *)

\* String.prototype.split(sep) for a one-character separator
RECURSIVE split(_, _)
split(s, sep) ==
  IF \A i \in 1..Len(s) : s[i] # sep THEN <<s>>
  ELSE With(CHOOSE i \in 1..Len(s) : s[i] = sep /\ \A j \in 1..(i - 1) : s[j] # sep,
            LAMBDA i : <<SubSeq(s, 1, i - 1)>> \o split(SubSeq(s, i + 1, Len(s)), sep))

\* String.prototype.trim()
RECURSIVE trim(_)
trim(s) ==
  IF s = <<>> THEN s
  ELSE IF Head(s) = " " THEN trim(Tail(s))
  ELSE IF s[Len(s)] = " " THEN trim(SubSeq(s, 1, Len(s) - 1))
  ELSE s

\* parseInt of a string of decimal digits
RECURSIVE parseDigits(_)
parseDigits(s) ==
  IF s = <<>> THEN 0
  ELSE 10 * parseDigits(SubSeq(s, 1, Len(s) - 1)) + indexOf(DIGITS, s[Len(s)])

\* utils.parseIntStrict: /^-?(0|[1-9]\d*)$/ then parseInt
parseIntStrict(str) ==
  With(Len(str) > 0 /\ str[1] = "-", LAMBDA neg :
  With(IF neg THEN Tail(str) ELSE str, LAMBDA body :
    IF ~(/\ Len(body) > 0
         /\ \A i \in 1..Len(body) : indexOf(DIGITS, body[i]) # -1
         /\ (body[1] = "0" => Len(body) = 1))
    THEN [ok |-> FALSE, value |-> 0]
    ELSE [ok |-> TRUE, value |-> IF neg THEN 0 - parseDigits(body) ELSE parseDigits(body)]))

\* FEN_CASTLING_REGEX = /^(?:-|[KQABCDEFGH]{0,2}[kqabcdefgh]{0,2})$/
matchesFenCastling(s) ==
  \/ s = <<"-">>
  \/ \E n \in 0..2 :
       /\ n <= Len(s)
       /\ Len(s) - n <= 2
       /\ \A i \in 1..n : s[i] \in {"K", "Q", "A", "B", "C", "D", "E", "F", "G", "H"}
       /\ \A i \in (n + 1)..Len(s) : s[i] \in {"k", "q", "a", "b", "c", "d", "e", "f", "g", "h"}

squareMirror(sq) == square(squareFile(sq), 7 - squareRank(sq))
SQUARES_180(i) == squareMirror(i)

_clearBoard(b) ==
  [b EXCEPT !.pawns = BB_EMPTY, !.knights = BB_EMPTY, !.bishops = BB_EMPTY,
            !.rooks = BB_EMPTY, !.queens = BB_EMPTY, !.kings = BB_EMPTY,
            !.promoted = BB_EMPTY, !.occupiedCo = [c \in 0..1 |-> BB_EMPTY],
            !.occupied = BB_EMPTY]

_resetBoard(b) ==
  [b EXCEPT !.pawns = BB_RANK_2 \cup BB_RANK_7,
            !.knights = {1, 6, 57, 62},
            !.bishops = {2, 5, 58, 61},
            !.rooks = BB_CORNERS,
            !.queens = {D1, D8},
            !.kings = {E1, E8},
            !.promoted = BB_EMPTY,
            !.occupiedCo = [c \in 0..1 |-> IF c = colorIdx(WHITE)
                                            THEN BB_RANK_1 \cup BB_RANK_2
                                            ELSE BB_RANK_7 \cup BB_RANK_8],
            !.occupied = ((BB_RANK_1 \cup BB_RANK_2) \cup BB_RANK_7) \cup BB_RANK_8]

\* The row validation loop of _setBoardFen, from character i on.
RECURSIVE validRow(_, _, _, _, _)
validRow(row, i, fieldSum, previousWasDigit, previousWasPiece) ==
  IF i > Len(row) THEN fieldSum = 8
  ELSE IF row[i] \in {"1", "2", "3", "4", "5", "6", "7", "8"}
  THEN ~previousWasDigit
         /\ validRow(row, i + 1, fieldSum + indexOf(DIGITS, row[i]), TRUE, FALSE)
  ELSE IF row[i] = "~"
  THEN previousWasPiece /\ validRow(row, i + 1, fieldSum, FALSE, FALSE)
  ELSE IF indexOf(PIECE_SYMBOLS, toLowerCase(row[i])) # -1
  THEN validRow(row, i + 1, fieldSum + 1, FALSE, TRUE)
  ELSE FALSE

\* The placement loop of _setBoardFen, from character i on.
RECURSIVE placePieces(_, _, _, _)
placePieces(b, fen, i, squareIndex) ==
  IF i > Len(fen) THEN b
  \* Never true (a bitboard holds squares only): reading b here has each
  \* placement evaluated before the next character is looked at.
  ELSE IF ~(b.occupied \subseteq BB_ALL) THEN b
  ELSE IF fen[i] \in {"1", "2", "3", "4", "5", "6", "7", "8"}
  THEN placePieces(b, fen, i + 1, squareIndex + indexOf(DIGITS, fen[i]))
  ELSE IF indexOf(PIECE_SYMBOLS, toLowerCase(fen[i])) # -1
  THEN placePieces(
         _setPieceAt(b, SQUARES_180(squareIndex),
                     indexOf(PIECE_SYMBOLS, toLowerCase(fen[i])),
                     fen[i] = toUpperCase(fen[i]), FALSE),
         fen, i + 1, squareIndex + 1)
  ELSE IF fen[i] = "~"
  THEN placePieces([b EXCEPT !.promoted = @ \cup {SQUARES_180(squareIndex - 1)}],
                   fen, i + 1, squareIndex)
  ELSE placePieces(b, fen, i + 1, squareIndex)

\* [ok, board]: ok is FALSE where the source throws ValueError.
\* A faulty parser that clears the board before it validates the rows.
_setBoardFenClearsFirst(b, fen0) ==
  With(trim(fen0), LAMBDA fen :
  With(split(fen, "/"), LAMBDA rows :
    IF \E i \in 1..Len(fen) : fen[i] = " " THEN [ok |-> FALSE, board |-> _clearBoard(b)]
    ELSE IF Len(rows) # 8 THEN [ok |-> FALSE, board |-> _clearBoard(b)]
    ELSE IF \E r \in 1..8 : ~validRow(rows[r], 1, 0, FALSE, FALSE)
    THEN [ok |-> FALSE, board |-> _clearBoard(b)]
    ELSE [ok |-> TRUE, board |-> placePieces(_clearBoard(b), fen, 1, 0)]))

_setBoardFen(b, fen0) ==
  With(trim(fen0), LAMBDA fen :
  With(split(fen, "/"), LAMBDA rows :
    IF \E i \in 1..Len(fen) : fen[i] = " " THEN [ok |-> FALSE, board |-> b]
    ELSE IF Len(rows) # 8 THEN [ok |-> FALSE, board |-> b]
    ELSE IF \E r \in 1..8 : ~validRow(rows[r], 1, 0, FALSE, FALSE)
    THEN [ok |-> FALSE, board |-> b]
    ELSE [ok |-> TRUE, board |-> placePieces(_clearBoard(b), fen, 1, 0)]))

\* The flag loop of _setCastlingFen, from character i on.
RECURSIVE castlingFlags(_, _, _, _)
castlingFlags(b, castlingFen, i, rights) ==
  IF i > Len(castlingFen) THEN rights
  ELSE
    With(castlingFen[i] = toUpperCase(castlingFen[i]), LAMBDA color :
    With(toLowerCase(castlingFen[i]), LAMBDA flag :
    With(IF color = WHITE THEN BB_RANK_1 ELSE BB_RANK_8, LAMBDA backrank :
    With((b.occupiedCo[colorIdx(color)] \cap b.rooks) \cap backrank, LAMBDA rooks :
    With(king(b, color), LAMBDA k :
      castlingFlags(b, castlingFen, i + 1,
        rights \cup
          (IF flag = "q"
           THEN IF k # null /\ lsb(rooks) < k THEN lowestBit(rooks)
                ELSE BB_FILE_A \cap backrank
           ELSE IF flag = "k"
           THEN IF k # null /\ k < msb(rooks) THEN {msb(rooks)}
                ELSE BB_FILE_H \cap backrank
           ELSE BB_FILES(indexOf(FILE_NAMES, flag)) \cap backrank)))))))

\* A faulty parser that grants no castling rights whatever the field says.
_setCastlingFenNone(b, castlingFen) == [b EXCEPT !.castlingRights = BB_EMPTY]

\* The castling-regex check was made by setFen before any field is written.
_setCastlingFen(b, castlingFen) ==
  IF castlingFen = <<>> \/ castlingFen = <<"-">> THEN [b EXCEPT !.castlingRights = BB_EMPTY]
  ELSE [b EXCEPT !.castlingRights = castlingFlags(b, castlingFen, 1, BB_EMPTY)]

clearStack(b) == [b EXCEPT !.moveStack = <<>>, !.stack = <<>>]

\* setFen once every field of the FEN has been found well formed
setFenFields(b, turn, castlingPart, squareIdx, halfmove, fullmove, boardPart) ==
  With(_setBoardFen(b, boardPart), LAMBDA placed :
    IF ~placed.ok THEN [ok |-> FALSE, board |-> placed.board]
    ELSE [ok |-> TRUE,
          board |-> clearStack(
            [_setCastlingFen([placed.board EXCEPT !.turn = turn], castlingPart) EXCEPT
               !.epSquare = squareIdx,
               !.halfmoveClock = halfmove,
               !.fullmoveNumber = Max(fullmove, 1)])])

\* [ok, board]: ok is FALSE where the source throws ValueError.
setFen(b, fen) ==
  With(split(fen, " "), LAMBDA parts :
  With(Len(parts), LAMBDA n :
  With(IF n < 4 \/ parts[4] = <<"-">> THEN null ELSE parseSquareName(parts[4]),
       LAMBDA squareIdx :
  With(IF n < 5 THEN [ok |-> TRUE, value |-> 0] ELSE parseIntStrict(parts[5]),
       LAMBDA halfmove :
  With(IF n < 6 THEN [ok |-> TRUE, value |-> 1] ELSE parseIntStrict(parts[6]),
       LAMBDA fullmove :
    IF ~(n < 2 \/ parts[2] = <<"w">> \/ parts[2] = <<"b">>) THEN [ok |-> FALSE, board |-> b]
    ELSE IF ~(n < 3 \/ matchesFenCastling(parts[3])) THEN [ok |-> FALSE, board |-> b]
    ELSE IF ~(n < 4 \/ parts[4] = <<"-">> \/ squareIdx # -1) THEN [ok |-> FALSE, board |-> b]
    ELSE IF ~halfmove.ok \/ halfmove.value < 0 THEN [ok |-> FALSE, board |-> b]
    ELSE IF ~fullmove.ok \/ fullmove.value < 0 THEN [ok |-> FALSE, board |-> b]
    ELSE IF n > 6 THEN [ok |-> FALSE, board |-> b]
    ELSE setFenFields(b, IF n < 2 THEN WHITE ELSE parts[2] = <<"w">>,
                      IF n < 3 THEN <<"-">> ELSE parts[3],
                      squareIdx, halfmove.value, fullmove.value, parts[1]))))))

----------------------------------------------------------------------------
(* EPD parsing *)

WHITESPACE == {" ", "\t", "\r", "\n"}

\* String.prototype.split(/\s+/)
RECURSIVE splitWhitespace(_)
splitWhitespace(s) ==
  IF \A i \in 1..Len(s) : s[i] \notin WHITESPACE THEN <<s>>
  ELSE With(CHOOSE i \in 1..Len(s) :
              s[i] \in WHITESPACE /\ \A j \in 1..(i - 1) : s[j] \notin WHITESPACE,
            LAMBDA i :
       With(CHOOSE j \in (i + 1)..(Len(s) + 1) :
              /\ j = Len(s) + 1 \/ s[j] \notin WHITESPACE
              /\ \A k \in i..(j - 1) : s[k] \in WHITESPACE,
            LAMBDA j :
         <<SubSeq(s, 1, i - 1)>> \o splitWhitespace(SubSeq(s, j, Len(s)))))

\* String.prototype.trim() for every kind of white space
RECURSIVE trimWhitespace(_)
trimWhitespace(s) ==
  IF s = <<>> THEN s
  ELSE IF Head(s) \in WHITESPACE THEN trimWhitespace(Tail(s))
  ELSE IF s[Len(s)] \in WHITESPACE THEN trimWhitespace(SubSeq(s, 1, Len(s) - 1))
  ELSE s

\* Array.prototype.slice(0, end)
slice(arr, end) == SubSeq(arr, 1, IF Len(arr) < end THEN Len(arr) ELSE end)

\* Array.prototype.join(sep)
RECURSIVE join(_, _)
join(arr, sep) ==
  IF arr = <<>> THEN <<>>
  ELSE IF Len(arr) = 1 THEN arr[1]
  ELSE arr[1] \o sep \o join(Tail(arr), sep)

\* operations.set(opcode, value) on the Map kept as a sequence of entries
mapSet(operations, opcode, value) ==
  IF \E i \in 1..Len(operations) : operations[i].opcode = opcode
  THEN [i \in 1..Len(operations) |->
          IF operations[i].opcode = opcode THEN [opcode |-> opcode, value |-> value]
          ELSE operations[i]]
  ELSE Append(operations, [opcode |-> opcode, value |-> value])

mapHas(operations, opcode) == \E i \in 1..Len(operations) : operations[i].opcode = opcode

mapGet(operations, opcode) ==
  operations[CHOOSE i \in 1..Len(operations) : operations[i].opcode = opcode].value

\* The value set for an opcode without operand
emptyOperand(opcode) ==
  IF opcode \in {<<"p", "v">>, <<"a", "m">>, <<"b", "m">>}
  THEN [kind |-> "list", text |-> <<>>] ELSE [kind |-> "null", text |-> <<>>]

\* _parseEpdOps from the i-th character on (the character after the last is
\* null).  An operand is kept as its kind and its text: the number or the
\* moves it stands for are not computed.
RECURSIVE parseEpdOpsFrom(_, _, _, _, _, _)
parseEpdOpsFrom(operationPart, i, state, opcode, operand, operations) ==
  IF i > Len(operationPart) + 1
  THEN [ok |-> state = "opcode", operations |-> operations]
  ELSE
    With(IF i > Len(operationPart) THEN "null" ELSE operationPart[i], LAMBDA ch :
      IF state = "opcode"
      THEN IF ch # "null" /\ ch \in WHITESPACE
           THEN IF opcode = <<"-">>
                THEN parseEpdOpsFrom(operationPart, i + 1, "opcode", <<>>, operand, operations)
                ELSE IF opcode # <<>>
                THEN parseEpdOpsFrom(operationPart, i + 1, "after_opcode", opcode, operand,
                                     operations)
                ELSE parseEpdOpsFrom(operationPart, i + 1, state, opcode, operand, operations)
           ELSE IF ch = "null" \/ ch = ";"
           THEN IF opcode = <<"-">>
                THEN parseEpdOpsFrom(operationPart, i + 1, "opcode", <<>>, operand, operations)
                ELSE IF opcode # <<>>
                THEN parseEpdOpsFrom(operationPart, i + 1, "opcode", <<>>, operand,
                                     mapSet(operations, opcode, emptyOperand(opcode)))
                ELSE parseEpdOpsFrom(operationPart, i + 1, state, opcode, operand, operations)
           ELSE parseEpdOpsFrom(operationPart, i + 1, state, Append(opcode, ch), operand,
                                operations)
      ELSE IF state = "after_opcode"
      THEN IF ch # "null" /\ ch \in WHITESPACE
           THEN parseEpdOpsFrom(operationPart, i + 1, state, opcode, operand, operations)
           ELSE IF ch = "\""
           THEN parseEpdOpsFrom(operationPart, i + 1, "string", opcode, operand, operations)
           ELSE IF ch = "null" \/ ch = ";"
           THEN parseEpdOpsFrom(operationPart, i + 1, "opcode", <<>>, operand,
                                IF opcode # <<>>
                                THEN mapSet(operations, opcode, emptyOperand(opcode))
                                ELSE operations)
           ELSE IF ch \in {"+", "-", "0", "1", "2", "3", "4", "5", "6", "7", "8", "9", "."}
           THEN parseEpdOpsFrom(operationPart, i + 1, "numeric", opcode, <<ch>>, operations)
           ELSE parseEpdOpsFrom(operationPart, i + 1, "san", opcode, <<ch>>, operations)
      ELSE IF state = "numeric"
      THEN IF ch = "null" \/ ch = ";"
           THEN parseEpdOpsFrom(operationPart, i + 1, "opcode", <<>>, <<>>,
                                mapSet(operations, opcode,
                                       [kind |-> "number", text |-> operand]))
           ELSE parseEpdOpsFrom(operationPart, i + 1, state, opcode, Append(operand, ch),
                                operations)
      ELSE IF state = "string"
      THEN IF ch = "null" \/ ch = "\""
           THEN parseEpdOpsFrom(operationPart, i + 1, "opcode", <<>>, <<>>,
                                mapSet(operations, opcode,
                                       [kind |-> "string", text |-> operand]))
           ELSE IF ch = "\\"
           THEN parseEpdOpsFrom(operationPart, i + 1, "string_escape", opcode, operand,
                                operations)
           ELSE parseEpdOpsFrom(operationPart, i + 1, state, opcode, Append(operand, ch),
                                operations)
      ELSE IF state = "string_escape"
      THEN IF ch = "null"
           THEN parseEpdOpsFrom(operationPart, i + 1, "opcode", <<>>, <<>>,
                                mapSet(operations, opcode,
                                       [kind |-> "string", text |-> operand]))
           ELSE parseEpdOpsFrom(operationPart, i + 1, "string", opcode,
                                Append(operand, CASE ch = "r" -> "\r"
                                                  [] ch = "n" -> "\n"
                                                  [] ch = "t" -> "\t"
                                                  [] OTHER -> ch),
                                operations)
      ELSE \* state = "san"
           IF ch = "null" \/ ch = ";"
           THEN parseEpdOpsFrom(operationPart, i + 1, "opcode", <<>>, <<>>,
                                mapSet(operations, opcode,
                                       [kind |-> "san", text |-> operand]))
           ELSE parseEpdOpsFrom(operationPart, i + 1, state, opcode, Append(operand, ch),
                                operations))

_parseEpdOps(operationPart) ==
  parseEpdOpsFrom(operationPart, 1, "opcode", <<>>, <<>>, <<>>)

\* String(operations.get(opcode)) if the opcode is there, or the default
operandString(operations, opcode, default) ==
  IF mapHas(operations, opcode)
  THEN IF mapGet(operations, opcode).kind = "null" THEN <<"n", "u", "l", "l">>
       ELSE mapGet(operations, opcode).text
  ELSE default

\* The branch of setEpd for more than four parts
setEpdOperations(b, parts) ==
  With(_parseEpdOps(parts[Len(parts)]), LAMBDA parsed :
    IF ~parsed.ok THEN [ok |-> FALSE, board |-> b, operations |-> <<>>]
    ELSE
      With(setFen(b, join(SubSeq(parts, 1, Len(parts) - 1)
                            \o <<operandString(parsed.operations, <<"h", "m", "v", "c">>, <<"0">>),
                                 operandString(parsed.operations, <<"f", "m", "v", "n">>, <<"1">>)>>,
                          <<" ">>)), LAMBDA result :
        [ok |-> result.ok, board |-> result.board,
         operations |-> IF result.ok THEN parsed.operations ELSE <<>>]))

\* [ok, board, operations]: ok is FALSE where the source throws ValueError.
setEpd(b, epd) ==
  With(slice(splitWhitespace(trimWhitespace(epd)), 4), LAMBDA parts :
    IF Len(parts) > 4 THEN setEpdOperations(b, parts)
    ELSE With(setFen(b, epd), LAMBDA result :
           [ok |-> result.ok, board |-> result.board, operations |-> <<>>]))

----------------------------------------------------------------------------
(* Construction *)

\* 'rnbqkbnr/pppppppp/8/8/8/8/PPPPPPPP/RNBQKBNR w KQkq - 0 1'
STARTING_FEN ==
  <<"r","n","b","q","k","b","n","r","/","p","p","p","p","p","p","p","p","/",
    "8","/","8","/","8","/","8","/","P","P","P","P","P","P","P","P","/","R",
    "N","B","Q","K","B","N","R"," ","w"," ","K","Q","k","q"," ","-"," ","0",
    " ","1">>

\* 'r3k2r/8/8/8/8/8/8/R3K2R w KQkq - 0 1'
FEN_CASTLING ==
  <<"r","3","k","2","r","/","8","/","8","/","8","/","8","/","8","/","8","/",
    "R","3","K","2","R"," ","w"," ","K","Q","k","q"," ","-"," ","0"," ","1">>

\* '4k3/8/8/8/3pP3/8/8/4K3 b - e3 0 1'
FEN_EN_PASSANT ==
  <<"4","k","3","/","8","/","8","/","8","/","3","p","P","3","/","8","/","8",
    "/","4","K","3"," ","b"," ","-"," ","e","3"," ","0"," ","1">>

\* '8/8/8/8/k2pP2R/8/8/4K3 b - e3 0 1'
FEN_EP_SKEWER ==
  <<"8","/","8","/","8","/","8","/","k","2","p","P","2","R","/","8","/","8",
    "/","4","K","3"," ","b"," ","-"," ","e","3"," ","0"," ","1">>

\* 'n3k3/1P6/8/8/8/8/8/4K3 w - - 0 1'
FEN_PROMOTION ==
  <<"n","3","k","3","/","1","P","6","/","8","/","8","/","8","/","8","/","8",
    "/","4","K","3"," ","w"," ","-"," ","-"," ","0"," ","1">>

\* '4k3/8/8/8/8/8/4r3/R3K3 w Q - 0 1'
FEN_PINNED ==
  <<"4","k","3","/","8","/","8","/","8","/","8","/","8","/","4","r","3","/",
    "R","3","K","3"," ","w"," ","Q"," ","-"," ","0"," ","1">>

\* '4k3/8/8/8/8/8/8/4K3 w K - 0 1'
FEN_BAD_RIGHTS ==
  <<"4","k","3","/","8","/","8","/","8","/","8","/","8","/","8","/","4","K",
    "3"," ","w"," ","K"," ","-"," ","0"," ","1">>

\* '4k2r/8/8/8/8/8/8/4K3 w K - 0 1'
FEN_PHANTOM_ROOK ==
  <<"4","k","2","r","/","8","/","8","/","8","/","8","/","8","/","8","/","4",
    "K","3"," ","w"," ","K"," ","-"," ","0"," ","1">>

\* '7k/5Q2/6K1/8/8/8/8/8 b - - 99 60'
FEN_FIFTY ==
  <<"7","k","/","5","Q","2","/","6","K","1","/","8","/","8","/","8","/","8",
    "/","8"," ","b"," ","-"," ","-"," ","9","9"," ","6","0">>

\* '4k3/8/8/8/8/2N3N1/8/4K3 w - - 0 1'
FEN_TWO_KNIGHTS ==
  <<"4","k","3","/","8","/","8","/","8","/","8","/","2","N","3","N","1","/",
    "8","/","4","K","3"," ","w"," ","-"," ","-"," ","0"," ","1">>

\* '8/8/8/3k4/3pP3/8/8/4K3 b - e3 0 1'
FEN_EP_CHECK ==
  <<"8","/","8","/","8","/","3","k","4","/","3","p","P","3","/","8","/","8",
    "/","4","K","3"," ","b"," ","-"," ","e","3"," ","0"," ","1">>

\* '4k3/8/8/8/3p4/8/4P3/4K3 w - - 0 1'
FEN_DOUBLE_PUSH ==
  <<"4","k","3","/","8","/","8","/","8","/","3","p","4","/","8","/","4","P",
    "3","/","4","K","3"," ","w"," ","-"," ","-"," ","0"," ","1">>

\* '4k3/8/8/8/8/8/4P3/4K3 w - -'
EPD_PLAIN ==
  <<"4","k","3","/","8","/","8","/","8","/","8","/","8","/","4","P","3","/",
    "4","K","3"," ","w"," ","-"," ","-">>

\* '4k3/8/8/8/8/8/4P3/4K3 w - - hmvc 5; fmvn 7;'
EPD_CLOCKS ==
  <<"4","k","3","/","8","/","8","/","8","/","8","/","8","/","4","P","3","/",
    "4","K","3"," ","w"," ","-"," ","-"," ","h","m","v","c"," ","5",";"," ",
    "f","m","v","n"," ","7",";">>

\* 'k7/p7/P7/8/8/8/8/K7 w - - 0 1'
FEN_BLOCKED_PAWNS ==
  <<"k","7","/","p","7","/","P","7","/","8","/","8","/","8","/","8","/","K",
    "7"," ","w"," ","-"," ","-"," ","0"," ","1">>

\* '8/8/8/3k4/3pP3/8/8/4K3 b - - 0 1'
FEN_CHECK_NO_EP ==
  <<"8","/","8","/","8","/","3","k","4","/","3","p","P","3","/","8","/","8",
    "/","4","K","3"," ","b"," ","-"," ","-"," ","0"," ","1">>

\* The fields as the constructors leave them before clear / reset / setFen run
\* (turn, castlingRights and the clocks are assigned by all three).
newBoard(chess960) ==
  [pawns |-> BB_EMPTY, knights |-> BB_EMPTY, bishops |-> BB_EMPTY, rooks |-> BB_EMPTY,
   queens |-> BB_EMPTY, kings |-> BB_EMPTY, promoted |-> BB_EMPTY,
   occupiedCo |-> [c \in 0..1 |-> BB_EMPTY], occupied |-> BB_EMPTY,
   chess960 |-> chess960, epSquare |-> null, moveStack |-> <<>>, stack |-> <<>>,
   turn |-> WHITE, castlingRights |-> BB_EMPTY, halfmoveClock |-> 0, fullmoveNumber |-> 1]

reset(b) ==
  clearStack(_resetBoard(
    [b EXCEPT !.turn = WHITE, !.castlingRights = BB_CORNERS, !.epSquare = null,
              !.halfmoveClock = 0, !.fullmoveNumber = 1]))

\* new Board(fen, { chess960 }) for a fen that is not null
Board(fen, chess960) ==
  IF fen = STARTING_FEN THEN reset(newBoard(chess960))
  ELSE setFen(newBoard(chess960), fen).board

----------------------------------------------------------------------------
(* The state machine: a Board and the caller's last operation on it.  `other` *)
(* is the second Board a caller of copy() holds, `node` a GameNode of the     *)
(* PGN module: neither is touched by these callers.                          *)

\* A GameNode of chess/pgn.ts with no variation: its child nodes are numbered
\* in the order of their creation.
NoNode == [variations |-> <<>>, created |-> 0]

\* The second board before copy() has made it
NoCopy == [made |-> FALSE, board |-> newBoard(FALSE), aliases |-> {}, stack |-> 0]

MaxPly == 1

FENS ==
  {STARTING_FEN, FEN_CASTLING, FEN_EN_PASSANT, FEN_EP_SKEWER, FEN_PROMOTION,
   FEN_PINNED, FEN_BAD_RIGHTS, FEN_PHANTOM_ROOK, FEN_FIFTY, FEN_TWO_KNIGHTS,
   FEN_EP_CHECK, FEN_DOUBLE_PUSH}

\* The FEN strings the caller passes to setFen on a live board
SETFEN_INPUTS == {FEN_BAD_RIGHTS, FEN_CASTLING}

\* The EPD strings the caller passes to setEpd on a live board
EPD_INPUTS == {EPD_PLAIN, EPD_CLOCKS}

\* Array.from(iterable): the items the iterator yields
arrayFrom(iterable) == iterable

\* The items yielded by a generator function whose body is `return gen`: the
\* value returned becomes the value of the final { done: true } result, which
\* for-of and Array.from ignore, so nothing is yielded.
generatorReturning(gen) == <<>>

\* LegalMoveGenerator[Symbol.iterator]() and count(), for board.legalMoves
legalMoves(b) == generatorReturning(generateLegalMoves(b, BB_ALL, BB_ALL))
legalMovesCount(b) == Len(arrayFrom(legalMoves(b)))

\* PseudoLegalMoveGenerator[Symbol.iterator]() and count(), for board.pseudoLegalMoves
pseudoLegalMoves(b) == generatorReturning(generatePseudoLegalMoves(b, BB_ALL, BB_ALL))
pseudoLegalMovesCount(b) == Len(arrayFrom(pseudoLegalMoves(b)))

Init ==
  /\ \E fen \in FENS, chess960 \in BOOLEAN :
       /\ setFen(newBoard(chess960), fen).ok
       /\ board = Board(fen, chess960)
  /\ last = [op |-> "new", move |-> MoveNull]
  /\ other = NoCopy
  /\ node = NoNode

\* board.push(move) for a move taken from board.legalMoves
Push ==
  /\ Len(board.moveStack) < MaxPly
  /\ \E move \in Range(generateLegalMoves(board, BB_ALL, BB_ALL)) :
       /\ board' = push(board, move)
       /\ last' = [op |-> "push", move |-> move]
  /\ UNCHANGED <<other, node>>

\* board.pop()
Pop ==
  /\ Len(board.moveStack) > 0
  /\ Len(board.stack) > 0
  /\ board' = pop(board)
  /\ last' = [op |-> "pop", move |-> peek(board)]
  /\ UNCHANGED <<other, node>>

\* board.setFen(fen)
SetFen ==
  \E fen \in SETFEN_INPUTS :
    \E result \in {setFen(board, fen)} :
      /\ result.ok
      /\ board' = result.board
      /\ last' = [op |-> "setFen", move |-> MoveNull]
      /\ UNCHANGED <<other, node>>

\* board.setEpd(epd)
SetEpd ==
  \E epd \in EPD_INPUTS :
    \E result \in {setEpd(board, epd)} :
      /\ result.ok
      /\ board' = result.board
      /\ last' = [op |-> "setEpd", move |-> MoveNull]
      /\ UNCHANGED <<other, node>>

Next == Push \/ Pop \/ SetFen \/ SetEpd

Spec == Init /\ [][Next]_vars

----------------------------------------------------------------------------
(* A second caller: knight moves pushed by their SAN from the starting position *)

MaxRepPly == 8

\* 'Nf3', 'Ng1', 'Nf6', 'Ng8', 'Nc3', 'Nb1', 'Nc6', 'Nb8'
KNIGHT_SANS ==
  {<<"N", "f", "3">>, <<"N", "g", "1">>, <<"N", "f", "6">>, <<"N", "g", "8">>,
   <<"N", "c", "3">>, <<"N", "b", "1">>, <<"N", "c", "6">>, <<"N", "b", "8">>}

InitRep ==
  /\ \E chess960 \in BOOLEAN : board = Board(STARTING_FEN, chess960)
  /\ last = [op |-> "new", move |-> MoveNull]
  /\ other = NoCopy
  /\ node = NoNode

\* board.pushSan(san)
PushSan ==
  /\ Len(board.moveStack) < MaxRepPly
  /\ \E str \in KNIGHT_SANS :
       \E result \in {pushSan(board, str)} :
         /\ result.ok
         /\ board' = result.board
         /\ last' = [op |-> "pushSan", move |-> peek(result.board)]
         /\ UNCHANGED <<other, node>>

NextRep == PushSan

SpecRep == InitRep /\ [][NextRep]_vars

----------------------------------------------------------------------------
(* FEN and EPD output *)

\* Number.prototype.toString() of a natural number
RECURSIVE numToString(_)
numToString(n) ==
  IF n < 10 THEN <<DIGITS[n + 1]>>
  ELSE numToString(n \div 10) \o <<DIGITS[(n % 10) + 1]>>

\* Piece.symbol() of pieceAt(sq), for an occupied square
pieceAtSymbol(b, sq) ==
  IF sq \in b.occupiedCo[colorIdx(WHITE)]
  THEN toUpperCase(pieceSymbol(pieceTypeAt(b, sq)))
  ELSE pieceSymbol(pieceTypeAt(b, sq))

\* The loop of boardFen from the i-th square of SQUARES_180 to the end of its
\* rank (where the count of empty squares is written and reset), with the
\* count of empty squares not yet written.
RECURSIVE boardFenFrom(_, _, _, _)
boardFenFrom(b, promoted, i, empty) ==
  With(SQUARES_180(i), LAMBDA sq :
  With(IF pieceTypeAt(b, sq) = null THEN empty + 1 ELSE 0, LAMBDA empty1 :
    (IF pieceTypeAt(b, sq) = null THEN <<>>
     ELSE (IF empty # 0 THEN numToString(empty) ELSE <<>>)
            \o <<pieceAtSymbol(b, sq)>>
            \o (IF promoted /\ sq \in b.promoted THEN <<"~">> ELSE <<>>))
      \o (IF sq \in BB_FILE_H
          THEN (IF empty1 # 0 THEN numToString(empty1) ELSE <<>>)
                 \o (IF sq # H1 THEN <<"/">> ELSE <<>>)
          ELSE boardFenFrom(b, promoted, i + 1, empty1))))

boardFen(b, promoted) ==
  Flatten([r \in 1..8 |-> boardFenFrom(b, promoted, 8 * (r - 1), 0)])

\* The character castlingXfen writes for one rook square of color
castlingXfenChar(b, color, rookSquare) ==
  With(squareFile(rookSquare) < squareFile(king(b, color)), LAMBDA aSide :
  With(((b.occupiedCo[colorIdx(color)] \cap b.rooks)
          \cap (IF color = WHITE THEN BB_RANK_1 ELSE BB_RANK_8)) \ {rookSquare},
       LAMBDA otherRooks :
  With(IF \E otherRook \in otherRooks :
            (squareFile(otherRook) < squareFile(rookSquare)) = aSide
       THEN FILE_NAMES[squareFile(rookSquare) + 1]
       ELSE IF aSide THEN "q" ELSE "k", LAMBDA ch :
    IF color = WHITE THEN toUpperCase(ch) ELSE ch)))

\* The characters castlingXfen writes for color
castlingXfenOf(b, color) ==
  IF king(b, color) = null THEN <<>>
  ELSE
    With(scanReversed(cleanCastlingRights(b)
                        \cap (IF color = WHITE THEN BB_RANK_1 ELSE BB_RANK_8)),
         LAMBDA rookSquares :
      [i \in 1..Len(rookSquares) |-> castlingXfenChar(b, color, rookSquares[i])])

castlingXfen(b) ==
  With(castlingXfenOf(b, COLORS[1]) \o castlingXfenOf(b, COLORS[2]), LAMBDA builder :
    IF Len(builder) # 0 THEN builder ELSE <<"-">>)

castlingShredderFen(b) ==
  With(cleanCastlingRights(b), LAMBDA castlingRights :
    IF castlingRights = {} THEN <<"-">>
    ELSE
      With(scanReversed(castlingRights \cap BB_RANK_1), LAMBDA white :
      With(scanReversed(castlingRights \cap BB_RANK_8), LAMBDA black :
        [i \in 1..Len(white) |-> toUpperCase(FILE_NAMES[squareFile(white[i]) + 1])]
          \o [i \in 1..Len(black) |-> FILE_NAMES[squareFile(black[i]) + 1]])))

\* The en passant square epd discloses under the policy enPassant
epdEpSquare(b, enPassant) ==
  IF enPassant = "fen" THEN b.epSquare
  ELSE IF enPassant = "xfen"
  THEN IF hasPseudoLegalEnPassant(b) THEN b.epSquare ELSE null
  ELSE IF hasLegalEnPassant(b) THEN b.epSquare ELSE null

\* epd({ shredder, enPassant, promoted }) without operations
epd(b, shredder, enPassant, promoted) ==
  With(epdEpSquare(b, enPassant), LAMBDA epSquare :
    boardFen(b, promoted)
      \o <<" ">> \o (IF b.turn = WHITE THEN <<"w">> ELSE <<"b">>)
      \o <<" ">> \o (IF shredder THEN castlingShredderFen(b) ELSE castlingXfen(b))
      \o <<" ">> \o (IF epSquare # null THEN SQUARE_NAMES(epSquare) ELSE <<"-">>))

\* fen({ shredder, enPassant, promoted })
fen(b, shredder, enPassant, promoted) ==
  epd(b, shredder, enPassant, promoted)
    \o <<" ">> \o numToString(b.halfmoveClock)
    \o <<" ">> \o numToString(b.fullmoveNumber)

\* The characters of SAN in the order of their UTF-16 code units
CHAR_CODES == <<"#", "+", "-">> \o DIGITS \o <<"=", "@">> \o UPPER \o LOWER

\* a < b for strings, as Array.prototype.sort() compares them
RECURSIVE stringLess(_, _)
stringLess(a, b) ==
  IF b = <<>> THEN FALSE
  ELSE IF a = <<>> THEN TRUE
  ELSE IF Head(a) = Head(b) THEN stringLess(Tail(a), Tail(b))
  ELSE indexOf(CHAR_CODES, Head(a)) < indexOf(CHAR_CODES, Head(b))

\* Array.prototype.sort() of an array of strings
RECURSIVE sortStrings(_)
sortStrings(arr) ==
  IF arr = <<>> THEN <<>>
  ELSE With(sortStrings(Tail(arr)), LAMBDA rest :
         SelectSeq(rest, LAMBDA x : stringLess(x, Head(arr)))
           \o <<Head(arr)>>
           \o SelectSeq(rest, LAMBDA x : ~stringLess(x, Head(arr))))

\* The five replace() calls that escape a string operand
escapeOperand(text) ==
  Flatten([i \in 1..Len(text) |->
    CASE text[i] = "\\" -> <<"\\", "\\">>
      [] text[i] = "\t" -> <<"\\", "t">>
      [] text[i] = "\r" -> <<"\\", "r">>
      [] text[i] = "\n" -> <<"\\", "n">>
      [] text[i] = "\"" -> <<"\\", "\"">>
      [] OTHER -> <<text[i]>>])

\* Move.copy()
moveCopy(m) == [m EXCEPT !.ref = 0]

\* The option `stack: true` of copy, among the numbers of moves to keep (0
\* stands for `false` too: both are falsy)
STACK_ALL == -1

\* A faulty copy that keeps every move while it keeps the last n snapshots.
copyEveryMove(b, stack) ==
  IF stack = 0 THEN [b EXCEPT !.moveStack = <<>>, !.stack = <<>>]
  ELSE
    With(IF stack = STACK_ALL THEN Len(b.moveStack) ELSE stack, LAMBDA n :
      [b EXCEPT
         !.moveStack = [i \in 1..Len(@) |-> moveCopy(@[i])],
         !.stack = IF n = 0 \/ n >= Len(@) THEN @ ELSE SubSeq(@, Len(@) - n + 1, Len(@))])

\* Board.copy({ stack })
copy(b, stack) ==
  IF stack = 0 THEN [b EXCEPT !.moveStack = <<>>, !.stack = <<>>]
  ELSE
    With(IF stack = STACK_ALL THEN Len(b.moveStack) ELSE stack, LAMBDA n :
      \* slice(-n): the whole array for -0 and for n beyond its length
      [b EXCEPT
         !.moveStack =
           IF n = 0 \/ n >= Len(@) THEN [i \in 1..Len(@) |-> moveCopy(@[i])]
           ELSE [i \in 1..n |-> moveCopy(@[Len(@) - n + i])],
         !.stack = IF n = 0 \/ n >= Len(@) THEN @ ELSE SubSeq(@, Len(@) - n + 1, Len(@))])

\* new Board(flag) where the fen argument is a boolean: it is neither null nor
\* startingFen, so the constructor runs setFen(flag), whose fen.split(' ')
\* throws a TypeError.
BoardOfBoolean(flag) == [ok |-> FALSE, board |-> newBoard(FALSE)]

\* root(): passes this.chess960 as the first constructor argument
root(b) ==
  IF Len(b.stack) > 0
    THEN With(BoardOfBoolean(b.chess960), LAMBDA made :
           IF made.ok THEN [ok |-> TRUE, board |-> restore(b.stack[1], made.board)]
           ELSE [ok |-> FALSE, board |-> made.board])
    ELSE [ok |-> TRUE, board |-> copy(b, 0)]

sanAndPush(b, move) == _algebraicAndPush(b, move, FALSE)

\* The sanAndPush loop of _epdOperations over the moves of a pv operand
RECURSIVE variationSans(_, _)
variationSans(position, moves) ==
  IF moves = <<>> THEN [ok |-> TRUE, text |-> <<>>]
  ELSE With(sanAndPush(position, Head(moves)), LAMBDA first :
         IF ~first.ok THEN [ok |-> FALSE, text |-> <<>>]
         ELSE With(variationSans(first.board, Tail(moves)), LAMBDA rest :
                [ok |-> rest.ok, text |-> <<" ">> \o first.san \o rest.text]))

\* What _epdOperations pushes after the opcode, for an operand given as
\* [kind, number, finite, text, move, moves] with kind "null", "move",
\* "number", "moves" or "string".
epdOperand(b, opcode, operand) ==
  IF operand.kind = "null" THEN [ok |-> TRUE, text |-> <<";">>]
  ELSE IF operand.kind = "move"
  THEN With(san(b, operand.move), LAMBDA r :
         [ok |-> r.ok, text |-> <<" ">> \o r.san \o <<";">>])
  ELSE IF operand.kind = "number"
  THEN IF ~operand.finite THEN [ok |-> FALSE, text |-> <<>>]
       ELSE [ok |-> TRUE, text |-> <<" ">> \o numToString(operand.number) \o <<";">>]
  ELSE IF opcode = <<"p", "v">> /\ operand.kind = "moves"
  THEN With(variationSans(copy(b, 0), operand.moves), LAMBDA r :
         [ok |-> r.ok, text |-> r.text \o <<";">>])
  ELSE IF opcode \in {<<"a", "m">>, <<"b", "m">>} /\ operand.kind = "moves"
  THEN IF \E i \in 1..Len(operand.moves) : ~san(b, operand.moves[i]).ok
       THEN [ok |-> FALSE, text |-> <<>>]
       ELSE [ok |-> TRUE,
             text |-> Flatten([i \in 1..Len(operand.moves) |->
                        <<" ">> \o sortStrings([j \in 1..Len(operand.moves) |->
                                                  san(b, operand.moves[j]).san])[i]])
                        \o <<";">>]
  ELSE [ok |-> TRUE, text |-> <<" ", "\"">> \o escapeOperand(operand.text) \o <<"\"">>]

\* [ok, text]: ok is FALSE where the source throws.
RECURSIVE epdOperationsFrom(_, _, _)
epdOperationsFrom(b, operations, i) ==
  IF i > Len(operations) THEN [ok |-> TRUE, text |-> <<>>]
  ELSE IF operations[i].opcode = <<"-">> THEN [ok |-> FALSE, text |-> <<>>]
  ELSE IF \E k \in 1..Len(operations[i].opcode) : operations[i].opcode[k] \in WHITESPACE
  THEN [ok |-> FALSE, text |-> <<>>]
  ELSE With(epdOperand(b, operations[i].opcode, operations[i].value), LAMBDA first :
       With(epdOperationsFrom(b, operations, i + 1), LAMBDA rest :
         [ok |-> first.ok /\ rest.ok,
          text |-> (IF i > 1 THEN <<" ">> ELSE <<>>)
                     \o operations[i].opcode \o first.text \o rest.text]))

_epdOperations(b, operations) == epdOperationsFrom(b, operations, 1)

\* epd({ shredder, enPassant, promoted }, operations)
epdWithOperations(b, shredder, enPassant, promoted, operations) ==
  IF Len(operations) = 0
  THEN [ok |-> TRUE, text |-> epd(b, shredder, enPassant, promoted)]
  ELSE With(_epdOperations(b, operations), LAMBDA r :
         [ok |-> r.ok, text |-> epd(b, shredder, enPassant, promoted) \o <<" ">> \o r.text])

----------------------------------------------------------------------------
(* Chess960 starting positions *)

\* utils.divmod(x, y) for x >= 0 and y > 0
divmod(x, y) == <<x \div y, x % y>>

\* The values of n1 and n2 when the loop over range(0, 4) ends: at the first
\* n1 whose n2 satisfies the test, or after its last round.
knightCode(n1, n) ==
  With(n + ((3 - n1) * (4 - n1)) \div 2 - 5, LAMBDA n2 :
    IF (n1 < n2 /\ 1 <= n2 /\ n2 <= 4) \/ n1 = 3 THEN <<n1, n2>>
    ELSE <<-1, -1>>)

firstKnightCode(n) ==
  knightCode(CHOOSE n1 \in 0..3 :
               /\ knightCode(n1, n) # <<-1, -1>>
               /\ \A m \in 0..(n1 - 1) : knightCode(m, n) = <<-1, -1>>, n)

\* ~x for a boolean x, and the truthiness of a number
bitwiseNot(x) == IF x THEN -2 ELSE -1
numberTruthy(x) == x # 0

\* The knights loop from file i: the files given to knights
RECURSIVE knightFiles(_, _, _, _)
knightFiles(i, used, n1, n2) ==
  IF i = 8 THEN {}
  ELSE IF i \notin used
    THEN IF n1 = 0 \/ n2 = 0
           THEN {i} \cup knightFiles(i + 1, used \cup {i}, n1 - 1, n2 - 1)
           ELSE knightFiles(i + 1, used, n1 - 1, n2 - 1)
    ELSE knightFiles(i + 1, used, n1, n2)

\* The first file of range(start, 8) that is not in used, or null
firstUnused(start, used) ==
  IF \E i \in start..7 : i \notin used
    THEN CHOOSE i \in start..7 : i \notin used /\ \A j \in start..(i - 1) : j \in used
    ELSE null

\* The first file of range(1, 8) for which ~used.includes(i) is truthy
kingFile(used) ==
  CHOOSE i \in 1..7 :
    /\ numberTruthy(bitwiseNot(i \in used))
    /\ \A j \in 1..(i - 1) : ~numberTruthy(bitwiseNot(j \in used))

backrankFile(file) == IF file = null THEN BB_EMPTY ELSE BB_FILES(file) \cap BB_BACKRANKS

\* The RKR part and the final assignments, given the files used so far
placeRooksAndKing(b, bishops, queens, knights, used) ==
  With(firstUnused(0, used), LAMBDA rook1 :
    With(kingFile(used \cup (IF rook1 = null THEN {} ELSE {rook1})), LAMBDA kingAt :
      With(firstUnused(2, used \cup (IF rook1 = null THEN {} ELSE {rook1}) \cup {kingAt}),
           LAMBDA rook2 :
        [b EXCEPT
           !.bishops = bishops, !.queens = queens, !.knights = knights,
           !.rooks = (IF rook1 = null THEN @ ELSE backrankFile(rook1))
                       \cup backrankFile(rook2),
           !.kings = backrankFile(kingAt),
           !.pawns = BB_RANK_2 \cup BB_RANK_7,
           !.occupiedCo = [c \in 0..1 |-> IF c = colorIdx(WHITE)
                                           THEN BB_RANK_1 \cup BB_RANK_2
                                           ELSE BB_RANK_7 \cup BB_RANK_8],
           !.occupied = BB_RANK_1 \cup BB_RANK_2 \cup BB_RANK_7 \cup BB_RANK_8,
           !.promoted = BB_EMPTY])))

placeChess960(b, bwFile, bbFile, q, code) ==
  With(q + (IF Min(bwFile, bbFile) <= q THEN 1 ELSE 0), LAMBDA q1 :
    With(q1 + (IF Max(bwFile, bbFile) <= q1 THEN 1 ELSE 0), LAMBDA qFile :
      With(knightFiles(0, {bwFile, bbFile, qFile}, code[1], code[2]), LAMBDA files :
        placeRooksAndKing(b,
          (BB_FILES(bwFile) \cup BB_FILES(bbFile)) \cap BB_BACKRANKS,
          BB_FILES(qFile) \cap BB_BACKRANKS,
          UNION {BB_FILES(i) \cap BB_BACKRANKS : i \in files},
          {bwFile, bbFile, qFile} \cup files))))

\* BaseBoard._setChess960Pos(scharnagl)
_setChess960Pos(b, scharnagl) ==
  IF ~(0 <= scharnagl /\ scharnagl <= 959) THEN [ok |-> FALSE, board |-> b]
  ELSE
    [ok |-> TRUE,
     board |-> placeChess960(b,
                 divmod(scharnagl, 4)[2] * 2 + 1,
                 divmod(divmod(scharnagl, 4)[1], 4)[2] * 2,
                 divmod(divmod(divmod(scharnagl, 4)[1], 4)[1], 6)[2],
                 firstKnightCode(divmod(divmod(divmod(scharnagl, 4)[1], 4)[1], 6)[1]))]

\* Board.setChess960Pos(scharnagl)
setChess960Pos(b, scharnagl) ==
  With(_setChess960Pos(b, scharnagl), LAMBDA result :
    IF ~result.ok THEN result
    ELSE [ok |-> TRUE,
          board |-> clearStack([result.board EXCEPT
                      !.chess960 = TRUE, !.turn = WHITE,
                      !.castlingRights = result.board.rooks, !.epSquare = null,
                      !.halfmoveClock = 0, !.fullmoveNumber = 1])])

N0S == <<0, 4, 7, 9>>

ScanStart ==
  [null |-> FALSE, q |-> 0, qf |-> FALSE, n0 |-> 0, n1 |-> 0,
   n0f |-> FALSE, n1f |-> FALSE, rf |-> 0]

\* One round of the loop of chess960Pos over the squares of the first rank
scanSquare(b, sq, st) ==
  IF sq \in b.queens THEN [st EXCEPT !.qf = TRUE]
  ELSE IF sq \in b.rooks \/ sq \in b.kings
    THEN IF sq \in b.kings /\ st.rf # 1 THEN [st EXCEPT !.null = TRUE]
         ELSE [st EXCEPT
                 !.rf = IF sq \in b.kings THEN @ ELSE @ + 1,
                 !.q = IF ~st.qf THEN @ + 1 ELSE @,
                 !.n0 = IF ~st.n0f THEN @ + 1 ELSE @,
                 !.n1 = IF st.n0f /\ ~st.n1f THEN @ + 1 ELSE @]
  ELSE IF sq \in b.knights
    THEN [st EXCEPT
            !.q = IF ~st.qf THEN @ + 1 ELSE @,
            !.n0f = TRUE,
            !.n1f = IF st.n0f THEN TRUE ELSE @]
  ELSE st

RECURSIVE scanFirstRank(_, _, _)
scanFirstRank(b, sq, st) ==
  IF sq > H1 \/ st.null THEN st
  ELSE scanFirstRank(b, sq + 1, scanSquare(b, sq, st))

\* BaseBoard.chess960Pos(): the index or null
baseChess960Pos(b) ==
  IF b.occupiedCo[colorIdx(WHITE)] # BB_RANK_1 \cup BB_RANK_2 THEN null
  ELSE IF b.occupiedCo[colorIdx(BLACK)] # BB_RANK_7 \cup BB_RANK_8 THEN null
  ELSE IF b.pawns # BB_RANK_2 \cup BB_RANK_7 THEN null
  ELSE IF b.promoted # BB_EMPTY THEN null
  ELSE IF popcount(b.bishops) # 4 \/ popcount(b.rooks) # 4 \/ popcount(b.knights) # 4
            \/ popcount(b.queens) # 2 \/ popcount(b.kings) # 2 THEN null
  ELSE IF \E pieces \in {b.bishops, b.rooks, b.knights, b.queens, b.kings} :
            {sq + 56 : sq \in BB_RANK_1 \cap pieces} # BB_RANK_8 \cap pieces THEN null
  ELSE IF b.bishops \cap {1, 3, 5, 7} = {} THEN null
  ELSE IF b.bishops \cap {0, 2, 4, 6} = {} THEN null
  ELSE
    With(scanFirstRank(b, A1, ScanStart), LAMBDA st :
      IF ~st.null /\ st.n0 < 4 /\ st.n1f /\ st.qf
        THEN (lsb(b.bishops \cap {1, 3, 5, 7}) - 1) \div 2
               + lsb(b.bishops \cap {0, 2, 4, 6}) * 2
               + st.q * 16 + (N0S[st.n0 + 1] + st.n1) * 96
        ELSE null)

\* Board.chess960Pos({ ignoreTurn, ignoreCastling, ignoreCounters })
chess960Pos(b, ignoreTurn, ignoreCastling, ignoreCounters) ==
  IF b.epSquare # null THEN null
  ELSE IF ~ignoreTurn /\ b.turn # WHITE THEN null
  ELSE IF ~ignoreCastling /\ cleanCastlingRights(b) # b.rooks THEN null
  ELSE IF ~ignoreCounters /\ (b.fullmoveNumber # 1 \/ b.halfmoveClock # 0) THEN null
  ELSE baseChess960Pos(b)

\* A caller that sets up Chess960 starting positions by index
SCHARNAGL_INPUTS == (-1)..960

InitChess960 ==
  /\ \E chess960 \in BOOLEAN : board = Board(STARTING_FEN, chess960)
  /\ last = [op |-> "new", move |-> MoveNull, scharnagl |-> null]
  /\ other = NoCopy
  /\ node = NoNode

\* board.setChess960Pos(scharnagl), called once on a new board: every field it
\* writes is overwritten whatever the position before.
SetChess960Pos ==
  /\ last.op = "new"
  /\ \E scharnagl \in SCHARNAGL_INPUTS :
       \E result \in {setChess960Pos(board, scharnagl)} :
         /\ result.ok
         /\ board' = result.board
         /\ last' = [op |-> "setChess960Pos", move |-> MoveNull, scharnagl |-> scharnagl]
         /\ UNCHANGED <<other, node>>

NextChess960 == SetChess960Pos

SpecChess960 == InitChess960 /\ [][NextChess960]_vars

----------------------------------------------------------------------------
(* A third caller: a board, its copy, and pushes and pops on either.  The    *)
(* arrays of a Board (moveStack, _stack, occupiedCo) are objects: where two  *)
(* boards hold the same array, a write through one shows in the other.       *)

MaxCopyPly == 2

\* The options the caller passes as `stack`: true, false (or 0), 1
COPY_STACKS == {STACK_ALL, 0, 1}

\* A faulty copy that hands its own moveStack array to the new board.
copyAliasesMoveStack(b, stack) == {"moveStack"}

\* The arrays the board made by copy({ stack }) shares with the receiver: none.
\* occupiedCo, moveStack and _stack are created by the constructor; slice()
\* and map() then return new arrays.
copyAliases(b, stack) == {}

\* A write to the arrays of `written` as seen through `holder`, which shares
\* the arrays named in aliases with it
writeThrough(holder, written, aliases) ==
  [holder EXCEPT
     !.moveStack = IF "moveStack" \in aliases THEN written.moveStack ELSE @,
     !.stack = IF "stack" \in aliases THEN written.stack ELSE @,
     !.occupiedCo = IF "occupiedCo" \in aliases THEN written.occupiedCo ELSE @]

InitCopy ==
  /\ board = Board(FEN_BLOCKED_PAWNS, FALSE)
  /\ last = [op |-> "new", move |-> MoveNull]
  /\ other = NoCopy
  /\ node = NoNode

\* board.push(move), at most MaxCopyPly plies away from the initial position
\* (clearStack() empties the stacks and keeps the position)
PushOriginal ==
  /\ Len(board.moveStack) < MaxCopyPly
  /\ board.halfmoveClock < MaxCopyPly
  /\ \E move \in Range(generateLegalMoves(board, BB_ALL, BB_ALL)) :
       \E pushed \in {push(board, move)} :
         /\ board' = pushed
         /\ other' = [other EXCEPT !.board = writeThrough(@, pushed, other.aliases)]
         /\ last' = [op |-> "push", move |-> move]
         /\ UNCHANGED node

\* board.pop()
PopOriginal ==
  /\ Len(board.moveStack) > 0
  /\ Len(board.stack) > 0
  /\ \E popped \in {pop(board)} :
       /\ board' = popped
       /\ other' = [other EXCEPT !.board = writeThrough(@, popped, other.aliases)]
       /\ last' = [op |-> "pop", move |-> peek(board)]
       /\ UNCHANGED node

\* other = board.copy({ stack })
Copy ==
  /\ ~other.made
  /\ \E stack \in COPY_STACKS :
       /\ other' = [made |-> TRUE, board |-> copy(board, stack),
                    aliases |-> copyAliases(board, stack), stack |-> stack]
       /\ last' = [op |-> "copy", move |-> MoveNull]
  /\ UNCHANGED <<board, node>>

\* other.push(move)
PushCopy ==
  /\ other.made
  /\ Len(other.board.moveStack) < MaxCopyPly
  /\ other.board.halfmoveClock < MaxCopyPly
  /\ \E move \in Range(generateLegalMoves(other.board, BB_ALL, BB_ALL)) :
       \E pushed \in {push(other.board, move)} :
         /\ other' = [other EXCEPT !.board = pushed]
         /\ board' = writeThrough(board, pushed, other.aliases)
         /\ last' = [op |-> "pushCopy", move |-> move]
         /\ UNCHANGED node

\* other.pop()
PopCopy ==
  /\ other.made
  /\ Len(other.board.moveStack) > 0
  /\ Len(other.board.stack) > 0
  /\ \E popped \in {pop(other.board)} :
       /\ other' = [other EXCEPT !.board = popped]
       /\ board' = writeThrough(board, popped, other.aliases)
       /\ last' = [op |-> "popCopy", move |-> peek(other.board)]
       /\ UNCHANGED node

\* board.setFen(fen): a mutator that empties both stacks in place
SetFenOriginal ==
  /\ Len(board.moveStack) > 0
  /\ \E result \in {setFen(board, FEN_BLOCKED_PAWNS)} :
       /\ result.ok
       /\ board' = result.board
       /\ other' = [other EXCEPT !.board = writeThrough(@, result.board, other.aliases)]
       /\ last' = [op |-> "setFen", move |-> MoveNull]
       /\ UNCHANGED node

\* other.setFen(fen)
SetFenCopy ==
  /\ other.made
  /\ Len(other.board.moveStack) > 0
  /\ \E result \in {setFen(other.board, FEN_BLOCKED_PAWNS)} :
       /\ result.ok
       /\ other' = [other EXCEPT !.board = result.board]
       /\ board' = writeThrough(board, result.board, other.aliases)
       /\ last' = [op |-> "setFenCopy", move |-> MoveNull]
       /\ UNCHANGED node

\* board.clearStack()
ClearStackOriginal ==
  /\ \E cleared \in {clearStack(board)} :
       /\ board' = cleared
       /\ other' = [other EXCEPT !.board = writeThrough(@, cleared, other.aliases)]
       /\ last' = [op |-> "clearStack", move |-> MoveNull]
       /\ UNCHANGED node

\* other.clearStack()
ClearStackCopy ==
  /\ other.made
  /\ \E cleared \in {clearStack(other.board)} :
       /\ other' = [other EXCEPT !.board = cleared]
       /\ board' = writeThrough(board, cleared, other.aliases)
       /\ last' = [op |-> "clearStackCopy", move |-> MoveNull]
       /\ UNCHANGED node

NextCopy ==
  \/ PushOriginal
  \/ PopOriginal
  \/ SetFenOriginal
  \/ ClearStackOriginal
  \/ Copy
  \/ PushCopy
  \/ PopCopy
  \/ SetFenCopy
  \/ ClearStackCopy

SpecCopy == InitCopy /\ [][NextCopy]_vars

----------------------------------------------------------------------------
(* A fourth caller: pop() and peek() at any time, also on an empty stack *)

\* board.pop() throws: nothing is written
PopThrows ==
  /\ ~tryPop(board).ok
  /\ last' = [op |-> "popThrows", move |-> MoveNull]
  /\ UNCHANGED <<board, other, node>>

\* board.peek() returns the last move
Peek ==
  /\ \E result \in {tryPeek(board)} :
       /\ result.ok
       /\ last' = [op |-> "peek", move |-> result.move]
  /\ UNCHANGED <<board, other, node>>

\* board.peek() throws
PeekThrows ==
  /\ ~tryPeek(board).ok
  /\ last' = [op |-> "peekThrows", move |-> MoveNull]
  /\ UNCHANGED <<board, other, node>>

NextStack == Push \/ Pop \/ PopThrows \/ Peek \/ PeekThrows

SpecStack == Init /\ [][NextStack]_vars

----------------------------------------------------------------------------
(* A fifth caller: positions at the end of a game, and the two king's        *)
(* knights moved out and back until the position has occurred five times     *)

MaxShufflePly == 16

\* '7k/6Q1/6K1/8/8/8/8/8 b - - 150 100'
FEN_MATE_150 ==
  <<"7","k","/","6","Q","1","/","6","K","1","/","8","/","8","/","8","/","8",
    "/","8"," ","b"," ","-"," ","-"," ","1","5","0"," ","1","0","0">>

\* '4k3/8/8/8/8/8/8/4K3 w - - 150 100'
FEN_BARE_KINGS_150 ==
  <<"4","k","3","/","8","/","8","/","8","/","8","/","8","/","8","/","4","K",
    "3"," ","w"," ","-"," ","-"," ","1","5","0"," ","1","0","0">>

\* 'k7/p7/P7/8/8/8/8/K7 w - - 150 100'
FEN_PAWN_150 ==
  <<"k","7","/","p","7","/","P","7","/","8","/","8","/","8","/","8","/","K",
    "7"," ","w"," ","-"," ","-"," ","1","5","0"," ","1","0","0">>

\* 'k7/p7/P7/8/8/8/8/K7 w - - 100 80'
FEN_PAWN_100 ==
  <<"k","7","/","p","7","/","P","7","/","8","/","8","/","8","/","8","/","K",
    "7"," ","w"," ","-"," ","-"," ","1","0","0"," ","8","0">>


OUTCOME_FENS ==
  {STARTING_FEN, FEN_MATE_150, FEN_BARE_KINGS_150, FEN_FIFTY, FEN_PAWN_150, FEN_PAWN_100}

\* 'Nf3', 'Ng1', 'Nf6', 'Ng8'
SHUFFLE_SANS ==
  {<<"N", "f", "3">>, <<"N", "g", "1">>, <<"N", "f", "6">>, <<"N", "g", "8">>}

InitOutcome ==
  /\ \E str \in OUTCOME_FENS, chess960 \in BOOLEAN : board = Board(str, chess960)
  /\ last = [op |-> "new", move |-> MoveNull]
  /\ other = NoCopy
  /\ node = NoNode

\* board.pushSan(san) with the next move of the shuffle
PushShuffle ==
  /\ Len(board.moveStack) < MaxShufflePly
  /\ \E str \in SHUFFLE_SANS :
       \E result \in {pushSan(board, str)} :
         /\ result.ok
         /\ board' = result.board
         /\ last' = [op |-> "pushSan", move |-> peek(result.board)]
         /\ UNCHANGED <<other, node>>

NextOutcome == PushShuffle \/ Push \/ Pop

SpecOutcome == InitOutcome /\ [][NextOutcome]_vars

----------------------------------------------------------------------------
(* A sixth caller: ray(a, b) and between(a, b) for two distinct squares *)

InitRays ==
  /\ board = newBoard(FALSE)
  /\ last = [op |-> "new", move |-> MoveNull]
  /\ other = NoCopy
  /\ node = NoNode

\* ray(a, b) and between(a, b), once: they read the BB_RAYS table only
Rays ==
  /\ last.op = "new"
  /\ \E a \in SQUARES, b \in SQUARES :
       /\ a # b
       /\ last' = [op |-> "rays", move |-> MoveNull, a |-> a, b |-> b,
                   ray |-> ray(a, b), between |-> between(a, b)]
  /\ UNCHANGED <<board, other, node>>

NextRays == Rays

SpecRays == InitRays /\ [][NextRays]_vars

(***************************************************************************)
(* Seventh caller: the variations of a GameNode (chess/pgn.ts).  A child    *)
(* node is named by the number of its creation, and addVariation() is      *)
(* called with a fresh Move each time, so that child n holds move n.  The  *)
(* argument of getitem() is a number, a Move or a GameNode.                *)
(***************************************************************************)
MaxVariations == 4

\* The arguments promote() and demote() are called with
VARIATION_ARGS ==
  [kind : {"number"}, value : 0..(MaxVariations - 1)]
    \cup [kind : {"move", "node"}, value : 1..MaxVariations]

\* GameNode.getitem(move): undefined (null) for a number out of range; the
\* callers below never pass a Move or GameNode the node does not hold
getitem(n, move) ==
  IF move.kind = "number"
  THEN IF move.value < Len(n.variations) THEN n.variations[move.value + 1] ELSE null
  ELSE n.variations[indexOf(n.variations, move.value) + 1]

\* getitem() throws KeyError
getitemThrows(n, move) ==
  /\ move.kind # "number"
  /\ indexOf(n.variations, move.value) < 0

\* new ChildNode(parent, move): this.parent.variations.push(this)
addVariation(n) ==
  [variations |-> Append(n.variations, n.created + 1), created |-> n.created + 1]

\* GameNode.promote(move)
promote(n, move) ==
  With(indexOf(n.variations, getitem(n, move)),
       LAMBDA i :
         IF i > 0
         THEN [n EXCEPT !.variations =
                 [k \in 1..Len(n.variations) |->
                    IF k = i THEN n.variations[i + 1]
                    ELSE IF k = i + 1 THEN n.variations[i]
                    ELSE n.variations[k]]]
         ELSE n)

\* GameNode.demote(move): the body of the `if` is a comma expression whose
\* only assignment is `this.variations[i] = this.variations[i]`
demote(n, move) ==
  With(indexOf(n.variations, getitem(n, move)),
       LAMBDA i :
         IF i < Len(n.variations) - 1
         THEN IF i >= 0
              THEN [n EXCEPT !.variations[i + 1] = n.variations[i + 1]]
              ELSE n
         ELSE n)

InitGame ==
  /\ board = newBoard(FALSE)
  /\ last = [op |-> "new", move |-> MoveNull]
  /\ other = NoCopy
  /\ node = NoNode

\* node.addVariation(move)
AddVariation ==
  /\ node.created < MaxVariations
  /\ node' = addVariation(node)
  /\ last' = [op |-> "addVariation", move |-> MoveNull]
  /\ UNCHANGED <<board, other>>

\* node.promote(move)
Promote ==
  \E move \in VARIATION_ARGS :
    /\ ~getitemThrows(node, move)
    /\ node' = promote(node, move)
    /\ last' = [op |-> "promote", move |-> MoveNull, arg |-> move]
    /\ UNCHANGED <<board, other>>

\* node.demote(move)
Demote ==
  \E move \in VARIATION_ARGS :
    /\ ~getitemThrows(node, move)
    /\ node' = demote(node, move)
    /\ last' = [op |-> "demote", move |-> MoveNull, arg |-> move]
    /\ UNCHANGED <<board, other>>

NextGame == AddVariation \/ Promote \/ Demote

SpecGame == InitGame /\ [][NextGame]_vars

(***************************************************************************)
(* Eighth caller: push of pseudo-legal moves, captures of a king included   *)
(***************************************************************************)
MaxRightsPly == 2

\* '3k3r/3K4/8/8/8/8/8/8 w k - 0 1'
FEN_KING_TAKES_KING ==
  <<"3","k","3","r","/","3","K","4","/","8","/","8","/","8","/","8","/","8",
    "/","8"," ","w"," ","k"," ","-"," ","0"," ","1">>

\* 'r3k2r/8/8/8/8/8/8/4RK2 w kq - 0 1'
FEN_ROOK_TAKES_KING ==
  <<"r","3","k","2","r","/","8","/","8","/","8","/","8","/","8","/","8","/",
    "4","R","K","2"," ","w"," ","k","q"," ","-"," ","0"," ","1">>

RIGHTS_FENS == {FEN_CASTLING, FEN_KING_TAKES_KING, FEN_ROOK_TAKES_KING}

InitRights ==
  /\ \E str \in RIGHTS_FENS, chess960 \in BOOLEAN : board = Board(str, chess960)
  /\ last = [op |-> "new", move |-> MoveNull]
  /\ other = NoCopy
  /\ node = NoNode

\* board.push(move) for a move of generatePseudoLegalMoves()
PushPseudoLegal ==
  /\ Len(board.moveStack) < MaxRightsPly
  /\ \E move \in Range(generatePseudoLegalMoves(board, BB_ALL, BB_ALL)) :
       /\ board' = push(board, move)
       /\ last' = [op |-> "push", move |-> move]
  /\ UNCHANGED <<other, node>>

NextRights == PushPseudoLegal \/ Pop

SpecRights == InitRights /\ [][NextRights]_vars

(***************************************************************************)
(* Ninth caller: push of pseudo-legal moves, of the null move and of drops, *)
(* from positions with pawn moves of every kind and a running clock        *)
(***************************************************************************)
MaxMovesPly == 2

\* 'rnbqkbnr/ppp1pppp/8/3pP3/8/8/PPPP1PPP/RNBQKBNR w KQkq d6 0 3'
FEN_EP_EXAMPLE ==
  <<"r","n","b","q","k","b","n","r","/","p","p","p","1","p","p","p","p","/",
    "8","/","3","p","P","3","/","8","/","8","/","P","P","P","P","1","P","P",
    "P","/","R","N","B","Q","K","B","N","R"," ","w"," ","K","Q","k","q"," ",
    "d","6"," ","0"," ","3">>

\* '4k3/8/8/8/3pP3/8/8/4K3 b - e3 7 10'
FEN_EP_CLOCK ==
  <<"4","k","3","/","8","/","8","/","8","/","3","p","P","3","/","8","/","8",
    "/","4","K","3"," ","b"," ","-"," ","e","3"," ","7"," ","1","0">>

\* 'n3k3/1P6/8/8/8/8/P6r/4K2R w K - 7 10'
FEN_PROMOTION_CLOCK ==
  <<"n","3","k","3","/","1","P","6","/","8","/","8","/","8","/","8","/","P",
    "6","r","/","4","K","2","R"," ","w"," ","K"," ","-"," ","7"," ","1","0">>

\* '4k3/p7/8/1P6/8/8/8/4K3 b - - 7 10'
FEN_BLACK_DOUBLE_PUSH ==
  <<"4","k","3","/","p","7","/","8","/","1","P","6","/","8","/","8","/","8",
    "/","4","K","3"," ","b"," ","-"," ","-"," ","7"," ","1","0">>

MOVES_FENS == {FEN_EP_EXAMPLE, FEN_EP_CLOCK, FEN_PROMOTION_CLOCK, FEN_BLACK_DOUBLE_PUSH}

\* The pieces the caller drops and the squares it drops them on
DROP_PIECES == {PAWN, KNIGHT}
DROP_SQUARES == {square(7, 3), square(7, 4)}

\* new Move(square, square, null, drop)
MoveDrop(sq, drop) ==
  [fromSquare |-> sq, toSquare |-> sq, promotion |-> null, drop |-> drop, ref |-> 0]

InitMoves ==
  /\ \E str \in MOVES_FENS : board = Board(str, FALSE)
  /\ last = [op |-> "new", move |-> MoveNull]
  /\ other = NoCopy
  /\ node = NoNode

\* board.push(move) for a move of generatePseudoLegalMoves()
PushMove ==
  /\ Len(board.moveStack) < MaxMovesPly
  /\ \E move \in Range(generatePseudoLegalMoves(board, BB_ALL, BB_ALL)) :
       /\ board' = push(board, move)
       /\ last' = [op |-> "push", move |-> move]
  /\ UNCHANGED <<other, node>>

\* board.push(Move.null())
PushNull ==
  /\ Len(board.moveStack) < MaxMovesPly
  /\ board' = push(board, MoveNull)
  /\ last' = [op |-> "pushNull", move |-> MoveNull]
  /\ UNCHANGED <<other, node>>

\* board.push(new Move(square, square, null, drop)) on an empty square
PushDrop ==
  /\ Len(board.moveStack) < MaxMovesPly
  /\ \E sq \in DROP_SQUARES \ board.occupied, drop \in DROP_PIECES :
       /\ board' = push(board, MoveDrop(sq, drop))
       /\ last' = [op |-> "pushDrop", move |-> MoveDrop(sq, drop)]
  /\ UNCHANGED <<other, node>>

NextMoves == PushMove \/ PushNull \/ PushDrop \/ Pop

SpecMoves == InitMoves /\ [][NextMoves]_vars

(***************************************************************************)
(* Tenth caller: isRepetition(n) and canClaimThreefoldRepetition() during a *)
(* knight shuffle that a pawn move may interrupt.  Both methods pop moves   *)
(* off the board and push them back: the operators below give the board    *)
(* they leave behind.                                                      *)
(***************************************************************************)
MaxCallsPly == 8

REPETITION_SANS == SHUFFLE_SANS \cup {<<"e", "4">>}

\* The values of count the caller passes to isRepetition
REPETITION_COUNTS == {1, 2, 3}

\* A faulty second loop that leaves the popped moves on the switchyard.
pushBackNothing(b, switchyard) == b

\* `while (switchyard.length > 0) this.push(switchyard.pop())`
RECURSIVE pushBack(_, _)
pushBack(b, switchyard) ==
  IF Len(switchyard) = 0 THEN b
  ELSE pushBack(push(b, switchyard[Len(switchyard)]),
                SubSeq(switchyard, 1, Len(switchyard) - 1))

\* The first loop of canClaimThreefoldRepetition: [board, switchyard] when it
\* ends, on an empty move stack or after popping an irreversible move
RECURSIVE popReversible(_, _)
popReversible(b, switchyard) ==
  IF Len(b.moveStack) = 0 THEN [board |-> b, switchyard |-> switchyard]
  ELSE IF isIrreversible(pop(b), peek(b))
  THEN [board |-> pop(b), switchyard |-> Append(switchyard, peek(b))]
  ELSE popReversible(pop(b), Append(switchyard, peek(b)))

\* The loop over the legal moves of canClaimThreefoldRepetition: each move is
\* pushed and popped again, up to the move that makes the method return
RECURSIVE tryLegalMoves(_, _, _, _)
tryLegalMoves(b, moves, i, transpositions) ==
  IF i > Len(moves) THEN b
  ELSE IF counterGet(transpositions, _transpositionKey(push(b, moves[i]))) >= 2
  THEN pop(push(b, moves[i]))
  ELSE tryLegalMoves(pop(push(b, moves[i])), moves, i + 1, transpositions)

\* The board canClaimThreefoldRepetition() leaves behind
canClaimThreefoldRepetitionBoard(b) ==
  With(<<_transpositionKey(b)>> \o poppedKeys(b), LAMBDA transpositions :
  With(popReversible(b, <<>>), LAMBDA popped :
  With(pushBack(popped.board, popped.switchyard), LAMBDA b1 :
    IF counterGet(transpositions, transpositions[1]) >= 3 THEN b1
    ELSE tryLegalMoves(b1, generateLegalMoves(b1, BB_ALL, BB_ALL), 1, transpositions))))

\* The full replay loop of isRepetition: [board, switchyard] when it ends
RECURSIVE replayPopped(_, _, _, _)
replayPopped(b, transpositionKey, count, switchyard) ==
  IF count <= 1 THEN [board |-> b, switchyard |-> switchyard]
  ELSE IF Len(b.moveStack) < count - 1 THEN [board |-> b, switchyard |-> switchyard]
  ELSE IF isIrreversible(pop(b), peek(b))
  THEN [board |-> pop(b), switchyard |-> Append(switchyard, peek(b))]
  ELSE replayPopped(pop(b), transpositionKey,
                    IF _transpositionKey(pop(b)) = transpositionKey
                    THEN count - 1 ELSE count,
                    Append(switchyard, peek(b)))

\* Does the fast check of isRepetition, on occupancy only, let the replay run?
maybeRepetition(b, count) ==
  1 + Cardinality({i \in 1..Len(b.stack) : b.stack[i].occupied = b.occupied}) >= count

\* The board isRepetition(count) leaves behind
isRepetitionBoard(b, count) ==
  IF ~maybeRepetition(b, count) THEN b
  ELSE With(replayPopped(b, _transpositionKey(b), count, <<>>), LAMBDA popped :
         pushBack(popped.board, popped.switchyard))

InitCalls ==
  /\ board = Board(STARTING_FEN, FALSE)
  /\ last = [op |-> "new", move |-> MoveNull]
  /\ other = NoCopy
  /\ node = NoNode

\* board.pushSan(san) with a move of the shuffle or the pawn move
PushRepetitionSan ==
  /\ Len(board.moveStack) < MaxCallsPly
  /\ \E str \in REPETITION_SANS :
       \E result \in {pushSan(board, str)} :
         /\ result.ok
         /\ board' = result.board
         /\ last' = [op |-> "pushSan", move |-> peek(result.board)]
         /\ UNCHANGED <<other, node>>

\* board.isRepetition(count)
IsRepetition ==
  /\ last.op \in {"new", "pushSan"}
  /\ \E count \in REPETITION_COUNTS :
       /\ board' = isRepetitionBoard(board, count)
       /\ last' = [op |-> "isRepetition", move |-> MoveNull, count |-> count,
                   result |-> isRepetition(board, count)]
  /\ UNCHANGED <<other, node>>

\* board.canClaimThreefoldRepetition()
CanClaimThreefoldRepetition ==
  /\ last.op \in {"new", "pushSan"}
  /\ board' = canClaimThreefoldRepetitionBoard(board)
  /\ last' = [op |-> "canClaimThreefoldRepetition", move |-> MoveNull,
              result |-> canClaimThreefoldRepetition(board)]
  /\ UNCHANGED <<other, node>>

NextCalls == PushRepetitionSan \/ IsRepetition \/ CanClaimThreefoldRepetition

SpecCalls == InitCalls /\ [][NextCalls]_vars

(***************************************************************************)
(* Eleventh caller: setFen(fen) on a board in play, with strings that the  *)
(* parser accepts and strings that it rejects with a ValueError.           *)
(***************************************************************************)

\* '8/8/8/8/8/8/4K3 w - - 0 1'
FEN_SEVEN_ROWS ==
  <<"8","/","8","/","8","/","8","/","8","/","8","/","4","K","3"," ","w"," ",
    "-"," ","-"," ","0"," ","1">>

\* '4k4/8/8/8/8/8/8/4K3 w - - 0 1'
FEN_NINE_COLUMNS ==
  <<"4","k","4","/","8","/","8","/","8","/","8","/","8","/","8","/","4","K",
    "3"," ","w"," ","-"," ","-"," ","0"," ","1">>

\* '4k3/44/8/8/8/8/8/4K3 w - - 0 1'
FEN_TWO_DIGITS ==
  <<"4","k","3","/","4","4","/","8","/","8","/","8","/","8","/","8","/","4",
    "K","3"," ","w"," ","-"," ","-"," ","0"," ","1">>

\* '4k3/8/8/8/8/8/8/4X3 w - - 0 1'
FEN_UNKNOWN_CHARACTER ==
  <<"4","k","3","/","8","/","8","/","8","/","8","/","8","/","8","/","4","X",
    "3"," ","w"," ","-"," ","-"," ","0"," ","1">>

\* '4k3/8~/8/8/8/8/8/4K3 w - - 0 1'
FEN_TILDE_AFTER_DIGIT ==
  <<"4","k","3","/","8","~","/","8","/","8","/","8","/","8","/","8","/","4",
    "K","3"," ","w"," ","-"," ","-"," ","0"," ","1">>

\* '4k3/8/8/8/8/8/8/4K3 x - - 0 1'
FEN_BAD_TURN ==
  <<"4","k","3","/","8","/","8","/","8","/","8","/","8","/","8","/","4","K",
    "3"," ","x"," ","-"," ","-"," ","0"," ","1">>

\* '4k3/8/8/8/8/8/8/4K3 w KQX - 0 1'
FEN_BAD_CASTLING ==
  <<"4","k","3","/","8","/","8","/","8","/","8","/","8","/","8","/","4","K",
    "3"," ","w"," ","K","Q","X"," ","-"," ","0"," ","1">>

\* '4k3/8/8/8/8/8/8/4K3 w - e9 0 1'
FEN_BAD_EP ==
  <<"4","k","3","/","8","/","8","/","8","/","8","/","8","/","8","/","4","K",
    "3"," ","w"," ","-"," ","e","9"," ","0"," ","1">>

\* '4k3/8/8/8/8/8/8/4K3 w - - x 1'
FEN_BAD_HALFMOVE ==
  <<"4","k","3","/","8","/","8","/","8","/","8","/","8","/","8","/","4","K",
    "3"," ","w"," ","-"," ","-"," ","x"," ","1">>

\* '4k3/8/8/8/8/8/8/4K3 w - - -1 1'
FEN_NEGATIVE_HALFMOVE ==
  <<"4","k","3","/","8","/","8","/","8","/","8","/","8","/","8","/","4","K",
    "3"," ","w"," ","-"," ","-"," ","-","1"," ","1">>

\* '4k3/8/8/8/8/8/8/4K3 w - - 0 1x'
FEN_BAD_FULLMOVE ==
  <<"4","k","3","/","8","/","8","/","8","/","8","/","8","/","8","/","4","K",
    "3"," ","w"," ","-"," ","-"," ","0"," ","1","x">>

\* '4k3/8/8/8/8/8/8/4K3 w - - 0 1 0'
FEN_EXTRA_PART ==
  <<"4","k","3","/","8","/","8","/","8","/","8","/","8","/","8","/","4","K",
    "3"," ","w"," ","-"," ","-"," ","0"," ","1"," ","0">>

\* The malformed strings the caller passes to setFen
BAD_FENS ==
  {FEN_SEVEN_ROWS, FEN_NINE_COLUMNS, FEN_TWO_DIGITS, FEN_UNKNOWN_CHARACTER,
   FEN_TILDE_AFTER_DIGIT, FEN_BAD_TURN, FEN_BAD_CASTLING, FEN_BAD_EP,
   FEN_BAD_HALFMOVE, FEN_NEGATIVE_HALFMOVE, FEN_BAD_FULLMOVE, FEN_EXTRA_PART}

\* The strings whose fault lies in the piece placement field
BAD_PLACEMENT_FENS ==
  {FEN_SEVEN_ROWS, FEN_NINE_COLUMNS, FEN_TWO_DIGITS, FEN_UNKNOWN_CHARACTER,
   FEN_TILDE_AFTER_DIGIT}

InitSetFen ==
  /\ \E str \in {FEN_EP_CLOCK, FEN_PROMOTION_CLOCK} : board = Board(str, FALSE)
  /\ last = [op |-> "new", move |-> MoveNull]
  /\ other = NoCopy
  /\ node = NoNode

\* try { board.setFen(fen) } catch (e) {} for a string that setFen rejects
SetFenThrows ==
  \E str \in BAD_FENS :
    \E result \in {setFen(board, str)} :
      /\ ~result.ok
      /\ board' = result.board
      /\ last' = [op |-> "setFenThrows", move |-> MoveNull, input |-> str]
      /\ UNCHANGED <<other, node>>

NextSetFen == PushMove \/ Pop \/ SetFen \/ SetFenThrows

SpecSetFen == InitSetFen /\ [][NextSetFen]_vars

----------------------------------------------------------------------------
(* Properties *)

\* Move objects the caller builds itself, as `new Move(from, to, { promotion })`
CallerMoves ==
  {[fromSquare |-> f, toSquare |-> t, promotion |-> p, drop |-> null, ref |-> 1] :
     f \in SQUARES, t \in SQUARES, p \in {null, QUEEN, KNIGHT}}

\* C1: for every legal move m, push(m) followed by pop() gives back the board
\* it started from: every bitboard, the turn, the castling rights, the en
\* passant square, both clocks, the move stack and the stack of snapshots.
C1_PushPopRestores ==
  LET moves == generateLegalMoves(board, BB_ALL, BB_ALL)
  IN  \A i \in 1..Len(moves) :
        LET pushed == push(board, moves[i])
        IN  /\ Len(pushed.moveStack) = Len(board.moveStack) + 1
            /\ pop(pushed) = board

\* A pop has just undone a castling move, and the board is the one before it.
C1_Witness ==
  /\ last.op = "pop"
  /\ isCastling(board, last.move)
  /\ board.castlingRights \cap BB_RANK_1 # {}
  /\ LET moves == generateLegalMoves(board, BB_ALL, BB_ALL)
     IN  \E i \in 1..Len(moves) : sameMove(moves[i], last.move)

\* The from, to, promotion and drop of the moves a generator yields
moveSet(moves) ==
  {[fromSquare |-> moves[i].fromSquare, toSquare |-> moves[i].toSquare,
    promotion |-> moves[i].promotion, drop |-> moves[i].drop] : i \in 1..Len(moves)}

\* C2: where the side to move has a king, generateLegalMoves() yields exactly
\* the pseudo-legal moves after which the mover's king is not attacked (as
\* stated by the claim).
C2_LegalIsSafePseudoLegal ==
  king(board, board.turn) # null =>
    moveSet(generateLegalMoves(board, BB_ALL, BB_ALL))
      = moveSet(SelectSeq(generatePseudoLegalMoves(board, BB_ALL, BB_ALL),
                          LAMBDA m : ~wasIntoCheck(push(board, m))))

\* C3: isLegal(m) is true exactly when generateLegalMoves() yields a move with
\* the same fromSquare, toSquare, promotion and drop (as stated by the claim).
C3_IsLegalIffGenerated ==
  LET moves == generateLegalMoves(board, BB_ALL, BB_ALL)
  IN  \A m \in CallerMoves :
        isLegal(board, m) <=> \E i \in 1..Len(moves) : sameMove(moves[i], m)

\* C4: for every legal move m, parseUci(uci(m)) succeeds and returns a move
\* equal to m (as stated by the claim).
C4_UciRoundTrip ==
  LET moves == generateLegalMoves(board, BB_ALL, BB_ALL)
  IN  \A i \in 1..Len(moves) :
        LET parsed == parseUci(board, uci(board, moves[i]))
        IN  parsed.ok /\ sameMove(parsed.move, moves[i])

\* C5: for every legal move m, parseSan(san(m)) raises no error and returns a
\* move with the same fromSquare, toSquare, promotion and drop as m.
C5_SanRoundTrip ==
  LET moves == generateLegalMoves(board, BB_ALL, BB_ALL)
  IN  \A i \in 1..Len(moves) :
        LET written == san(board, moves[i])
            parsed == parseSan(board, written.san)
        IN  /\ written.ok
            /\ written.board = board
            /\ parsed.ok
            /\ sameMove(parsed.move, moves[i])

\* A pawn captures, promotes and gives check, and its SAN is read back.
C5_Witness ==
  LET moves == generateLegalMoves(board, BB_ALL, BB_ALL)
  IN  \E i \in 1..Len(moves) :
        LET written == san(board, moves[i])
        IN  /\ isCapture(board, moves[i])
            /\ moves[i].promotion = QUEEN
            /\ written.ok
            /\ written.san[Len(written.san)] = "+"
            /\ parseSan(board, written.san).ok
            /\ sameMove(parseSan(board, written.san).move, moves[i])

\* C6: cleanCastlingRights() returns only squares that hold a rook of the
\* owning colour on its back rank; in standard mode only corners, and nothing
\* for a colour whose non-promoted king is not on e1 / e8 (as stated by the
\* claim).
C6_CleanRightsAreValid ==
  LET clean == cleanCastlingRights(board)
      backrank(color) == IF color = WHITE THEN BB_RANK_1 ELSE BB_RANK_8
      home(color) == IF color = WHITE THEN E1 ELSE E8
      ownKings(color) == (board.kings \cap board.occupiedCo[colorIdx(color)]) \ board.promoted
  IN  /\ \A sq \in clean :
           \E color \in {WHITE, BLACK} :
             sq \in (board.rooks \cap board.occupiedCo[colorIdx(color)]) \cap backrank(color)
      /\ ~board.chess960 =>
           /\ clean \subseteq BB_CORNERS
           /\ \A color \in {WHITE, BLACK} :
                home(color) \notin ownKings(color) => clean \cap backrank(color) = {}

\* C7: status() has BAD_CASTLING_RIGHTS, and isValid() is false, whenever the
\* stored castlingRights hold a square that the cleaning rules reject (as
\* stated by the claim).
C7_StatusFlagsBadRights ==
  board.castlingRights # filteredCastlingRights(board) =>
    "BAD_CASTLING_RIGHTS" \in status(board) /\ ~isValid(board)

\* The two ways to write the castling move `move`: king two squares, and king
\* onto the rook that the castling right names.
castlingForms(b, move) ==
  LET from == move.fromSquare
      kingside == squareFile(move.toSquare) > squareFile(from)
      rook == CHOOSE sq \in b.castlingRights \cap BB_RANKS(squareRank(from)) :
                (squareFile(sq) > squareFile(from)) = kingside
  IN  [twoSquares |-> [fromSquare |-> from,
                       toSquare |-> square(IF kingside THEN 6 ELSE 2, squareRank(from)),
                       promotion |-> null, drop |-> null, ref |-> 1],
       toRook |-> [fromSquare |-> from, toSquare |-> rook,
                   promotion |-> null, drop |-> null, ref |-> 2]]

\* C8: for every legal castling move, pushing it as king-two-squares and
\* pushing it as king-to-rook give the same position: bitboards, turn,
\* castling rights, en passant square and clocks, under either chess960 flag.
C8_CastlingFormsAgree ==
  LET moves == generateLegalMoves(board, BB_ALL, BB_ALL)
  IN  \A i \in 1..Len(moves) :
        isCastling(board, moves[i]) =>
          LET forms == castlingForms(board, moves[i])
          IN  /\ _boardState(push(board, forms.twoSquares))
                   = _boardState(push(board, forms.toRook))
              /\ push(board, forms.twoSquares).moveStack
                   = push(board, forms.toRook).moveStack

\* White can castle short with a rook on h1; both forms put the king on g1 and
\* the rook on f1.
C8_Witness ==
  LET moves == generateLegalMoves(board, BB_ALL, BB_ALL)
  IN  \E i \in 1..Len(moves) :
        /\ isKingsideCastling(board, moves[i])
        /\ board.turn = WHITE
        /\ H1 \in board.rooks
        /\ LET forms == castlingForms(board, moves[i])
               pushed == push(board, forms.toRook)
           IN  /\ forms.twoSquares.toSquare = G1 /\ forms.toRook.toSquare = H1
               /\ G1 \in pushed.kings /\ F1 \in pushed.rooks /\ H1 \notin pushed.occupied
               /\ pushed = [push(board, forms.twoSquares) EXCEPT !.moveStack = pushed.moveStack]

\* 1.Nf3 Nf6 2.Ng1 Ng8 3.Nf3 Nf6 4.Ng1 Ng8
KNIGHT_SHUFFLE ==
  <<<<"N", "f", "3">>, <<"N", "f", "6">>, <<"N", "g", "1">>, <<"N", "g", "8">>,
    <<"N", "f", "3">>, <<"N", "f", "6">>, <<"N", "g", "1">>, <<"N", "g", "8">>>>

\* The board after pushSan of each of sans in turn, while they parse
RECURSIVE playSans(_, _)
playSans(b, sans) ==
  IF sans = <<>> THEN b
  ELSE With(pushSan(b, Head(sans)), LAMBDA result :
         IF result.ok THEN playSans(result.board, Tail(sans)) ELSE b)

\* C9: after 1.Nf3 Nf6 2.Ng1 Ng8 3.Nf3 Nf6 4.Ng1 Ng8 from the starting position
\* canClaimThreefoldRepetition() and isRepetition(3) are true and
\* outcome({claimDraw: true}) is THREEFOLD_REPETITION; one move earlier
\* isRepetition(3) is false.
C9_KnightShuffleRepeats ==
  LET start == Board(STARTING_FEN, board.chess960)
  IN  /\ board = playSans(start, KNIGHT_SHUFFLE) =>
           /\ canClaimThreefoldRepetition(board)
           /\ isRepetition(board, 3)
           /\ outcome(board, TRUE).termination = "THREEFOLD_REPETITION"
      /\ board = playSans(start, SubSeq(KNIGHT_SHUFFLE, 1, 7)) =>
           ~isRepetition(board, 3)

\* The eight moves have been pushed and the starting position stands a third time.
C9_Witness ==
  /\ Len(board.moveStack) = 8
  /\ board = playSans(Board(STARTING_FEN, board.chess960), KNIGHT_SHUFFLE)
  /\ _transpositionKey(board) = _transpositionKey(Board(STARTING_FEN, board.chess960))
  /\ last.op = "pushSan"

\* C10: canClaimFiftyMoves() is true exactly when isFiftyMoves() holds or some
\* legal move leads to a position where isFiftyMoves() holds (as stated by the
\* claim).
C10_FiftyMovesClaimIffLegalMove ==
  LET moves == generateLegalMoves(board, BB_ALL, BB_ALL)
  IN  canClaimFiftyMoves(board) <=>
        \/ isFiftyMoves(board)
        \/ \E i \in 1..Len(moves) : isFiftyMoves(push(board, moves[i]))

\* C11: hasLegalEnPassant() is true exactly when generateLegalMoves() yields an
\* en passant capture, whether or not the side to move is in check.
C11_LegalEnPassantIffGenerated ==
  hasLegalEnPassant(board) <=> \E move \in Range(generateLegalMoves(board, BB_ALL, BB_ALL)) : isEnPassant(board, move)

\* The ep disclosure policies of fen() and epd()
EN_PASSANT_SPECS == {"legal", "fen", "xfen"}

\* C12: for a valid position, setFen(f) of its own f = fen() succeeds and
\* fen() then returns f again, under each ep disclosure policy.
C12_FenRoundTrip ==
  isValid(board) =>
    \A enPassant \in EN_PASSANT_SPECS :
      LET f == fen(board, FALSE, enPassant, FALSE)
          result == setFen(board, f)
      IN  result.ok /\ fen(result.board, FALSE, enPassant, FALSE) = f

\* A double pawn push has just made an en passant capture legal, so that the
\* FEN names the en passant square; the position has castling rights or not.
C12_Witness ==
  /\ last.op = "push"
  /\ isValid(board)
  /\ hasLegalEnPassant(board)
  /\ fen(board, FALSE, "legal", FALSE) # fen([board EXCEPT !.epSquare = null], FALSE, "legal", FALSE)
  /\ setFen(board, fen(board, FALSE, "legal", FALSE)).board.epSquare = board.epSquare

\* C13: setEpd of an EPD with the operations 'hmvc 5; fmvn 7;' succeeds, returns
\* both operations and sets the clocks to 5 and 7; setEpd of the four fields
\* alone sets them to 0 and 1.
C13_SetEpdSetsClocks ==
  /\ LET result == setEpd(board, EPD_CLOCKS)
     IN  /\ result.ok
         /\ mapHas(result.operations, <<"h", "m", "v", "c">>)
         /\ mapHas(result.operations, <<"f", "m", "v", "n">>)
         /\ result.board.halfmoveClock = 5
         /\ result.board.fullmoveNumber = 7
  /\ LET result == setEpd(board, EPD_PLAIN)
     IN  /\ result.ok
         /\ result.board.halfmoveClock = 0
         /\ result.board.fullmoveNumber = 1

\* No operand, as a record of the shape epdOperand reads
NoOperand ==
  [kind |-> "null", number |-> 0, finite |-> TRUE, text |-> <<>>, move |-> MoveNull,
   moves |-> <<>>]

\* One operation of each operand kind, on the legal moves of b: null, integer,
\* string, a single move, and lists of moves for pv, am and bm.
epdOperationInputs(b) ==
  <<[opcode |-> <<"c", "0">>, value |-> NoOperand],
    [opcode |-> <<"a", "c", "d">>,
     value |-> [NoOperand EXCEPT !.kind = "number", !.number = 12]],
    [opcode |-> <<"i", "d">>,
     value |-> [NoOperand EXCEPT !.kind = "string", !.text = <<"a", "\"", "b">>]]>>
  \o (IF generateLegalMoves(b, BB_ALL, BB_ALL) = <<>> THEN <<>>
      ELSE <<[opcode |-> <<"s", "m">>,
              value |-> [NoOperand EXCEPT !.kind = "move", !.move = generateLegalMoves(b, BB_ALL, BB_ALL)[1]]],
             [opcode |-> <<"p", "v">>,
              value |-> [NoOperand EXCEPT !.kind = "moves",
                                          !.moves = SubSeq(generateLegalMoves(b, BB_ALL, BB_ALL), 1, 1)]],
             [opcode |-> <<"a", "m">>,
              value |-> [NoOperand EXCEPT !.kind = "moves",
                                          !.moves = SubSeq(generateLegalMoves(b, BB_ALL, BB_ALL), 1, 1)]],
             [opcode |-> <<"b", "m">>,
              value |-> [NoOperand EXCEPT !.kind = "moves", !.moves = generateLegalMoves(b, BB_ALL, BB_ALL)]]>>)

\* C14: _epdOperations writes every operation as 'opcode value;', each one
\* ending with a semicolon, whatever the kind of its operand: the text of one
\* operation ends with ';', and the text of several holds one ';' for each.
C14_EveryOperationTerminated ==
  LET inputs == epdOperationInputs(board)
      semicolons(text) == Len(SelectSeq(text, LAMBDA ch : ch = ";"))
      terminated(operations) ==
        LET r == _epdOperations(board, operations)
        IN  r.ok /\ r.text[Len(r.text)] = ";" /\ semicolons(r.text) = Len(operations)
  IN  /\ \A i \in 1..Len(inputs) : terminated(<<inputs[i]>>)
      /\ terminated(inputs)

\* The last n items of an array
lastItems(arr, n) == IF n >= Len(arr) THEN arr ELSE SubSeq(arr, Len(arr) - n + 1, Len(arr))

position(b) == [b EXCEPT !.moveStack = <<>>, !.stack = <<>>]

\* C16: after any number of pushes, root() returns a new board holding the
\* position before the first move on the stack (the current position when the
\* stack is empty), with the same chess960 flag.
C16_RootReturnsFirstPosition ==
  /\ root(board).ok
  /\ root(board).board.chess960 = board.chess960
  /\ position(root(board).board) =
       IF Len(board.stack) > 0 THEN position(restore(board.stack[1], board))
       ELSE position(board)

\* C17: in every position legalMoves.count() is the number of moves that
\* generateLegalMoves() yields, and iterating legalMoves (pseudoLegalMoves)
\* yields the moves of generateLegalMoves() (generatePseudoLegalMoves()).
C17_GeneratorsYieldGeneratedMoves ==
  /\ legalMovesCount(board) = Len(generateLegalMoves(board, BB_ALL, BB_ALL))
  /\ legalMoves(board) = generateLegalMoves(board, BB_ALL, BB_ALL)
  /\ pseudoLegalMoves(board) = generatePseudoLegalMoves(board, BB_ALL, BB_ALL)

RECURSIVE sum(_)
sum(numbers) == IF numbers = <<>> THEN 0 ELSE Head(numbers) + sum(Tail(numbers))

\* The number of move sequences of length depth obtained from b by repeatedly
\* taking a move from generateLegalMoves() and pushing it
RECURSIVE perft(_, _)
perft(b, depth) ==
  IF depth = 0 THEN 1
  ELSE With(generateLegalMoves(b, BB_ALL, BB_ALL), LAMBDA moves :
         IF depth = 1 THEN Len(moves)
         ELSE sum([i \in 1..Len(moves) |-> perft(push(b, moves[i]), depth - 1)]))

\* The published counts for the standard starting position, depths 1 to 4
PERFT_STARTING == <<20, 400, 8902, 197281>>

\* C18: from the standard starting position the number of sequences of n
\* legal moves is 20, 400, 8902 and 197281 for n = 1, 2, 3 and 4.
C18_PerftStartingPosition ==
  (last.op = "new" /\ board = Board(STARTING_FEN, board.chess960)) =>
    \A n \in 1..Len(PERFT_STARTING) : perft(board, n) = PERFT_STARTING[n]

\* One of the 20 first moves has been pushed on the starting position, and
\* sequences of three more moves follow it.
C18_Witness ==
  /\ last.op = "push"
  /\ Len(board.moveStack) = 1
  /\ restore(board.stack[1], board).occupied = Board(STARTING_FEN, FALSE).occupied
  /\ last.move \in Range(generateLegalMoves(Board(STARTING_FEN, board.chess960), BB_ALL, BB_ALL))
  /\ perft(board, 3) > 0

\* The symbols of the pieces on the first rank, from the a-file to the h-file
backRank(b) == [i \in 1..8 |-> pieceAtSymbol(b, A1 + i - 1)]

\* C19: for every n in 0..959, chess960Pos() after setChess960Pos(n) returns
\* n, n = 518 gives the back rank RNBQKBNR, and setChess960Pos raises for an n
\* outside 0..959.
C19_Chess960PosRoundTrip ==
  /\ last.op = "setChess960Pos" =>
       /\ chess960Pos(board, FALSE, FALSE, TRUE) = last.scharnagl
       /\ last.scharnagl = 518 =>
            backRank(board) = <<"R", "N", "B", "Q", "K", "B", "N", "R">>
  /\ \A n \in SCHARNAGL_INPUTS :
       setChess960Pos(board, n).ok <=> (0 <= n /\ n <= 959)

\* C20: for every legal move m, parseSan(lan(m)) raises no error and returns a
\* move equal to m, for captures (written with "x") and for non-captures
\* (written with "-").
C20_LanRoundTrip ==
  LET moves == generateLegalMoves(board, BB_ALL, BB_ALL)
  IN  \A i \in 1..Len(moves) :
        LET written == lan(board, moves[i])
            parsed == parseSan(board, written.san)
        IN  /\ written.ok
            /\ parsed.ok
            /\ sameMove(parsed.move, moves[i])

\* C21: in every position san(Move.null()) and lan(Move.null()) return "--"
\* and leave the board unchanged.
C21_NullMoveSan ==
  /\ san(board, MoveNull).ok
  /\ san(board, MoveNull).san = <<"-", "-">>
  /\ san(board, MoveNull).board = board
  /\ lan(board, MoveNull).ok
  /\ lan(board, MoveNull).san = <<"-", "-">>
  /\ lan(board, MoveNull).board = board

\* C22: pop() and peek() on a board whose move stack is empty raise and leave
\* the board unchanged; peek() on a non-empty stack returns the last pushed
\* move and changes nothing.
C22_PopPeekOnEmptyStack ==
  [][/\ Len(board.moveStack) = 0 =>
          /\ ~tryPop(board).ok
          /\ tryPop(board).board = board
          /\ ~tryPeek(board).ok
          /\ ~ENABLED Pop
          /\ ~ENABLED Peek
     /\ last'.op \in {"popThrows", "peekThrows"} =>
          Len(board.moveStack) = 0 /\ board' = board
     /\ last'.op = "push" => tryPeek(board').ok /\ tryPeek(board').move = last'.move
     /\ last'.op = "peek" =>
          /\ Len(board.moveStack) > 0
          /\ last'.move = board.moveStack[Len(board.moveStack)]
          /\ board' = board]_vars

\* pop() has thrown on a board with no move.
C22_Witness ==
  /\ last.op = "popThrows"
  /\ board.moveStack = <<>>
  /\ board.stack = <<>>

\* The results in the order of the claim, each with the condition under which
\* it applies
outcomeOrder(b, claimDraw) ==
  <<[applies |-> isCheckmate(b), outcome |-> Outcome("CHECKMATE", colorName(~b.turn))],
    [applies |-> isInsufficientMaterial(b), outcome |-> Outcome("INSUFFICIENT_MATERIAL", "null")],
    [applies |-> isStalemate(b), outcome |-> Outcome("STALEMATE", "null")],
    [applies |-> b.halfmoveClock >= 150 /\ generateLegalMoves(b, BB_ALL, BB_ALL) # <<>>,
     outcome |-> Outcome("SEVENTYFIVE_MOVES", "null")],
    [applies |-> isFivefoldRepetition(b), outcome |-> Outcome("FIVEFOLD_REPETITION", "null")],
    [applies |-> claimDraw /\ canClaimFiftyMoves(b), outcome |-> Outcome("FIFTY_MOVES", "null")],
    [applies |-> claimDraw /\ canClaimThreefoldRepetition(b),
     outcome |-> Outcome("THREEFOLD_REPETITION", "null")],
    [applies |-> TRUE, outcome |-> Outcome("null", "null")]>>

KEY_FENS == FENS \cup {FEN_CHECK_NO_EP}

\* The legal en-passant captures of a position
legalEnPassantCaptures(b) ==
  {move \in Range(generateLegalMoves(b, BB_ALL, BB_ALL)) : isEnPassant(b, move)}

\* C24: two boards with equal _transpositionKey() have the same piece
\* bitboards, colour occupancies, side to move, valid castling rights and legal
\* en-passant captures.
C24_EqualKeysSamePosition ==
  \A str \in KEY_FENS :
    _transpositionKey(board) = _transpositionKey(Board(str, board.chess960)) =>
      /\ \A field \in {"pawns", "knights", "bishops", "rooks", "queens", "kings",
                       "occupiedCo", "turn"} :
           board[field] = Board(str, board.chess960)[field]
      /\ filteredCastlingRights(board) = filteredCastlingRights(Board(str, board.chess960))
      /\ legalEnPassantCaptures(board) = legalEnPassantCaptures(Board(str, board.chess960))

\* Two squares on one rank, file or diagonal
aligned(a, b) ==
  \/ squareRank(a) = squareRank(b)
  \/ squareFile(a) = squareFile(b)
  \/ Abs(squareFile(a) - squareFile(b)) = Abs(squareRank(a) - squareRank(b))

\* The squares of the rank, file or diagonal through two aligned squares
lineThrough(a, b) ==
  {sq \in SQUARES :
     (squareFile(sq) - squareFile(a)) * (squareRank(b) - squareRank(a))
       = (squareRank(sq) - squareRank(a)) * (squareFile(b) - squareFile(a))}

\* The squares of that line strictly between the two
strictlyBetween(a, b) ==
  {sq \in lineThrough(a, b) :
     /\ sq \notin {a, b}
     /\ squareDistance(a, sq) + squareDistance(sq, b) = squareDistance(a, b)}

\* C25: for distinct squares a and b, between(a, b) is a subset of ray(a, b)
\* without a and b; for aligned squares it is the set of squares strictly
\* between them and ray(a, b) is the whole line; otherwise both are empty.
C25_RayAndBetween ==
  last.op = "rays" =>
    /\ last.between \subseteq last.ray
    /\ last.a \notin last.between
    /\ last.b \notin last.between
    /\ aligned(last.a, last.b) =>
         /\ last.between = strictlyBetween(last.a, last.b)
         /\ last.ray = lineThrough(last.a, last.b)
    /\ ~aligned(last.a, last.b) => last.between = {} /\ last.ray = {}

\* Two squares of one diagonal, three apart, the higher one given first.
C25_Witness ==
  /\ last.op = "rays"
  /\ last.a = H8
  /\ last.b = square(4, 4)
  /\ Cardinality(last.between) = 2
  /\ Cardinality(last.ray) = 8

\* The list with the items at the 0-based positions i and i + 1 exchanged
swapWithNext(arr, i) ==
  [k \in 1..Len(arr) |->
     IF k = i + 1 THEN arr[i + 2] ELSE IF k = i + 2 THEN arr[i + 1] ELSE arr[k]]

\* C26: GameNode.demote(v) swaps the variation v with the variation that
\* followed it in the node's list of variations whenever v is not last, leaves
\* the list unchanged when v is last, and never changes the set of variations.
C26_DemoteMovesDown ==
  [][(last'.op = "demote" /\ getitem(node, last'.arg) # null) =>
       /\ Range(node'.variations) = Range(node.variations)
       /\ Len(node'.variations) = Len(node.variations)
       /\ node'.variations =
            IF indexOf(node.variations, getitem(node, last'.arg)) < Len(node.variations) - 1
            THEN swapWithNext(node.variations,
                              indexOf(node.variations, getitem(node, last'.arg)))
            ELSE node.variations]_vars

\* The board as it was when only the first n moves of its stacks had been made
\* and its position was the one of the given snapshot
boardAt(b, state, n) ==
  [restore(state, b) EXCEPT !.moveStack = SubSeq(@, 1, n), !.stack = SubSeq(@, 1, n)]

\* moveStack and the snapshot stack have one length, and applying moveStack[i]
\* to the i-th snapshot gives the next snapshot (the board itself after the last)
snapshotsPrecedeMoves(b) ==
  /\ Len(b.moveStack) = Len(b.stack)
  /\ \A i \in 1..Len(b.stack) :
       i <= Len(b.moveStack) =>
         _boardState(push(boardAt(b, b.stack[i], i - 1), b.moveStack[i]))
           = IF i < Len(b.stack) THEN b.stack[i + 1] ELSE _boardState(b)

\* C27: after any sequence of push, pop, copy({stack}), clearStack and setFen,
\* on the board and on its copy, moveStack and the snapshot stack have equal
\* length and the i-th snapshot is the board state that held immediately before
\* moveStack[i] was applied: push appends the state it found together with the
\* move, and every snapshot followed by its move leads to the next one.
C27_SnapshotsMatchMoves ==
  [][/\ snapshotsPrecedeMoves(board')
     /\ snapshotsPrecedeMoves(other'.board)
     /\ last'.op = "push" =>
          /\ board'.stack = Append(board.stack, _boardState(board))
          /\ board'.moveStack = Append(board.moveStack, last'.move)
     /\ last'.op = "pushCopy" =>
          /\ other'.board.stack = Append(other.board.stack, _boardState(other.board))
          /\ other'.board.moveStack = Append(other.board.moveStack, last'.move)]_vars

\* A copy has kept the last of two moves: its only snapshot is the position
\* before that move, not the initial one.
C27_Witness ==
  /\ other.made
  /\ other.stack = 1
  /\ last.op = "copy"
  /\ Len(board.stack) = 2
  /\ Len(other.board.moveStack) = 1
  /\ Len(other.board.stack) = 1
  /\ other.board.stack[1] = board.stack[2]
  /\ other.board.stack[1] # board.stack[1]

\* The six piece bitboards of a board
pieceBitboards(b) == <<b.pawns, b.knights, b.bishops, b.rooks, b.queens, b.kings>>

\* C28: in every position reached from the standard start, from setFen or from
\* setChess960Pos by push of generated legal moves and pop, the six piece
\* bitboards are pairwise disjoint and their union is occupied, the two colour
\* bitboards are disjoint and their union is occupied, and promoted lies within
\* occupied.
C28_BitboardsPartitionOccupied ==
  /\ \A i, j \in 1..6 : i # j => pieceBitboards(board)[i] \cap pieceBitboards(board)[j] = {}
  /\ UNION Range(pieceBitboards(board)) = board.occupied
  /\ board.occupiedCo[colorIdx(WHITE)] \cap board.occupiedCo[colorIdx(BLACK)] = {}
  /\ board.occupiedCo[colorIdx(WHITE)] \cup board.occupiedCo[colorIdx(BLACK)] = board.occupied
  /\ board.promoted \subseteq board.occupied

\* The square a castling move names once it is written as king-takes-rook
castlingTarget(b, move) == _toChess960(b, move).toSquare

\* Is the castling move towards the a-file?
castlesASide(b, move) == squareFile(castlingTarget(b, move)) < squareFile(move.fromSquare)

\* C29: in a position set up from a FEN, every move generateCastlingMoves()
\* yields targets (as king-takes-rook) a castling-rights square holding a rook
\* of the side to move; after push the mover's king is on the c-file (a-side) or
\* g-file (h-side) square of its back rank, a rook of its colour is beside it on
\* the d-file or f-file, and the squares the king and the rook came from are
\* empty unless that king or rook went there.
C29_CastlingMovesCastle ==
  Len(board.moveStack) = 0 =>
    \A move \in Range(generateCastlingMoves(board, BB_ALL, BB_ALL)) :
      LET rank == squareRank(move.fromSquare)
          kingTo == square(IF castlesASide(board, move) THEN 2 ELSE 6, rank)
          rookTo == square(IF castlesASide(board, move) THEN 3 ELSE 5, rank)
          mine(b) == b.occupiedCo[colorIdx(board.turn)]
      IN  /\ castlingTarget(board, move)
               \in (board.castlingRights \cap board.rooks) \cap mine(board)
          /\ kingTo \in push(board, move).kings \cap mine(push(board, move))
          /\ rookTo \in push(board, move).rooks \cap mine(push(board, move))
          /\ ({move.fromSquare, castlingTarget(board, move)} \ {kingTo, rookTo})
               \cap push(board, move).occupied = {}

\* The back rank of a colour
backRankOf(color) == IF color = WHITE THEN BB_RANK_1 ELSE BB_RANK_8

\* Is the piece the move lifts a king that is not promoted?
moverIsKing(b, move) == move.fromSquare \in b.kings \ b.promoted

\* Does the move capture a non-promoted king of the other side on that side's
\* back rank?
capturesKingAtHome(b, move) ==
  move.toSquare \in (((b.kings \cap b.occupiedCo[colorIdx(~b.turn)]) \ b.promoted)
                       \cap backRankOf(~b.turn))

\* The rights a push of the move has to clear; with kingToo, the rights of a
\* captured king also when the capturing piece is a king
rightsToClear(b, move, kingToo) ==
  ({move.fromSquare, move.toSquare}
     \cup (IF moverIsKing(b, move) THEN backRankOf(b.turn) ELSE {}))
     \cup (IF capturesKingAtHome(b, move) /\ (kingToo \/ ~moverIsKing(b, move))
           THEN backRankOf(~b.turn) ELSE {})

\* The castling rights after the push are the rights before it without the
\* rights to clear, the valid ones among them all kept
rightsUpdated(before, move, after, kingToo) ==
  /\ after.castlingRights \cap rightsToClear(before, move, kingToo) = {}
  /\ filteredCastlingRights(before) \ rightsToClear(before, move, kingToo)
       \subseteq after.castlingRights
  /\ after.castlingRights \subseteq before.castlingRights

\* C30 as stated: after push(m) of a pseudo-legal move castlingRights has lost
\* the rights on m's from-square and to-square, all rights of the mover's back
\* rank if the mover was a non-promoted king, and all rights of the back rank
\* of a non-promoted king captured on it; every other valid right is kept.
C30_RightsAfterPush ==
  [][last'.op = "push" => rightsUpdated(board, last'.move, board', TRUE)]_vars

\* C30, amended: as above, but the rights of a captured king's back rank are
\* cleared only when the capturing piece is not itself a non-promoted king.
C30_RightsAfterPushAmended ==
  [][last'.op = "push" => rightsUpdated(board, last'.move, board', FALSE)]_vars

\* A rook has captured the black king on e8: the rights a8 and h8 are gone
C30_Witness ==
  /\ last.op = "push"
  /\ Len(board.stack) = 1
  /\ board.stack[1].castlingRights = {A8, H8}
  /\ board.stack[1].kings = {E8, F1}
  /\ last.move.toSquare = E8
  /\ board.kings = {F1}
  /\ board.castlingRights = {}

\* Does the move lift a pawn?
isPawnMove(b, move) == move.fromSquare \in b.pawns

\* Does a pawn go diagonally to an empty square (an en passant capture)?
capturesEnPassant(b, move) ==
  /\ isPawnMove(b, move)
  /\ squareFile(move.fromSquare) # squareFile(move.toSquare)
  /\ move.toSquare \notin b.occupied

\* Does the move take a piece of the other side?
capturesPiece(b, move) ==
  \/ move.toSquare \in b.occupiedCo[colorIdx(~b.turn)]
  \/ capturesEnPassant(b, move)

\* C31: after push of a pseudo-legal move that is no drop, halfmoveClock is 0
\* if the move is a capture (en passant included) or a pawn move and the
\* previous value plus 1 otherwise; push of a null move adds 1 to it.
C31_HalfmoveClockAfterPush ==
  [][/\ last'.op = "push" =>
          board'.halfmoveClock =
            IF capturesPiece(board, last'.move) \/ isPawnMove(board, last'.move)
            THEN 0 ELSE board.halfmoveClock + 1
     /\ last'.op = "pushNull" => board'.halfmoveClock = board.halfmoveClock + 1]_vars

\* A rook has taken a rook while the clock stood at 7: the clock is 0
C31_Witness ==
  /\ last.op = "push"
  /\ Len(board.stack) = 1
  /\ board.stack[1].halfmoveClock = 7
  /\ last.move.fromSquare \in board.stack[1].rooks
  /\ last.move.toSquare \in board.stack[1].rooks
  /\ board.halfmoveClock = 0

\* C32: push of a pawn drop puts a pawn of the mover on the target square,
\* swaps the turn and resets halfmoveClock to 0.
C32_PawnDropZeroesClock ==
  [][(last'.op = "pushDrop" /\ last'.move.drop = PAWN) =>
       /\ last'.move.toSquare \in board'.pawns \cap board'.occupiedCo[colorIdx(board.turn)]
       /\ board'.turn = ~board.turn
       /\ board'.halfmoveClock = 0]_vars

\* A ply() that counts full moves only.
plyOfFullMoves(b) == 2 * (b.fullmoveNumber - 1)

\* Board.ply()
ply(b) == 2 * (b.fullmoveNumber - 1) + (IF b.turn = BLACK THEN 1 ELSE 0)

\* C33: after every push (of a move, a drop or a null move) fullmoveNumber is
\* the previous value plus 1 if Black moved and unchanged if White moved, so
\* that ply() grows by exactly 1 with every push and falls by exactly 1 with
\* every pop.
C33_FullmoveNumberAndPly ==
  [][/\ last'.op \in {"push", "pushNull", "pushDrop"} =>
          /\ board'.fullmoveNumber =
               IF board.turn = BLACK THEN board.fullmoveNumber + 1
               ELSE board.fullmoveNumber
          /\ ply(board') = ply(board) + 1
     /\ last'.op = "pop" => ply(board') = ply(board) - 1]_vars

\* Black has dropped a piece after a null move of White: the second full move
\* of the run has begun
C33_Witness ==
  /\ last.op = "pushDrop"
  /\ Len(board.moveStack) = 2
  /\ ~moveBool(board.moveStack[1])
  /\ board.turn = WHITE
  /\ board.fullmoveNumber = board.stack[1].fullmoveNumber + 1
  /\ ply(board) = 2 * board.stack[1].fullmoveNumber

\* Is the move a pawn's advance of two squares from its starting rank?
isDoublePush(b, move) ==
  /\ move.drop = null
  /\ move.fromSquare \in b.pawns
  /\ squareFile(move.toSquare) = squareFile(move.fromSquare)
  /\ \/ b.turn = WHITE /\ squareRank(move.fromSquare) = 1 /\ squareRank(move.toSquare) = 3
     \/ b.turn = BLACK /\ squareRank(move.fromSquare) = 6 /\ squareRank(move.toSquare) = 4

\* C34: after every push(m), epSquare is non-null if and only if m was a pawn
\* double push from the pawn's starting rank; it is then the square the pawn
\* passed over, on the third rank when White moved and on the sixth when Black
\* moved.  After any other move, a null move included, it is null.
C34_EpSquareAfterPush ==
  [][last'.op \in {"push", "pushNull", "pushDrop"} =>
       IF isDoublePush(board, last'.move)
       THEN /\ board'.epSquare # null
            /\ board'.epSquare =
                 square(squareFile(last'.move.fromSquare), IF board.turn = WHITE THEN 2 ELSE 5)
            /\ 2 * board'.epSquare = last'.move.fromSquare + last'.move.toSquare
       ELSE board'.epSquare = null]_vars

\* Black has played a7-a5: the en passant square is a6
C34_Witness ==
  /\ last.op = "push"
  /\ last.move.fromSquare = square(0, 6)
  /\ last.move.toSquare = square(0, 4)
  /\ board.turn = WHITE
  /\ board.epSquare = square(0, 5)

\* The square of the pawn an en passant capture on the ep square takes
epVictimSquare(b) == IF b.turn = WHITE THEN b.epSquare - 8 ELSE b.epSquare + 8

\* The en passant capture has been carried out from `before` to `after`
enPassantDone(before, move, after) ==
  /\ epVictimSquare(before) \in before.pawns \cap before.occupiedCo[colorIdx(~before.turn)]
  /\ epVictimSquare(before) \notin after.occupied
  /\ move.toSquare \in after.pawns \cap after.occupiedCo[colorIdx(before.turn)]
  /\ move.fromSquare \notin after.occupied
  /\ after.halfmoveClock = 0
  /\ after.occupied =
       ((before.occupied \ {move.fromSquare, epVictimSquare(before)}) \cup {move.toSquare})

\* C35: push of an en passant capture (a pawn going diagonally to the empty ep
\* square) removes the opposing pawn one rank behind the ep square, puts the
\* capturing pawn on the ep square, empties its origin square and resets
\* halfmoveClock to 0; on 'rnbqkbnr/ppp1pppp/8/3pP3/8/8/PPPP1PPP/RNBQKBNR w
\* KQkq d6 0 3' pushSan('exd6') leaves d5 empty and a white pawn on d6.
C35_EnPassantCapture ==
  [][/\ (/\ last'.op = "push"
         /\ capturesEnPassant(board, last'.move)
         /\ last'.move.toSquare = board.epSquare)
          => enPassantDone(board, last'.move, board')
     /\ (last.op = "new" /\ board = Board(FEN_EP_EXAMPLE, FALSE)) =>
          /\ pushSan(board, <<"e", "x", "d", "6">>).ok
          /\ square(3, 4) \notin pushSan(board, <<"e", "x", "d", "6">>).board.occupied
          /\ square(3, 5) \in pushSan(board, <<"e", "x", "d", "6">>).board.pawns
          /\ square(3, 5) \in pushSan(board, <<"e", "x", "d", "6">>).board.occupiedCo[colorIdx(WHITE)]]_vars

\* Black's d4 pawn has taken the e4 pawn en passant on e3 while the clock
\* stood at 7
C35_Witness ==
  /\ last.op = "push"
  /\ Len(board.stack) = 1
  /\ board.stack[1].epSquare = square(4, 2)
  /\ board.stack[1].halfmoveClock = 7
  /\ last.move.fromSquare = square(3, 3)
  /\ last.move.toSquare = square(4, 2)
  /\ square(4, 3) \in board.stack[1].pawns
  /\ square(4, 3) \notin board.occupied
  /\ square(4, 2) \in board.pawns
  /\ board.halfmoveClock = 0

\* The piece placement of a board: its bitboards
placement(b) ==
  <<b.pawns, b.knights, b.bishops, b.rooks, b.queens, b.kings,
    b.occupiedCo[colorIdx(WHITE)], b.occupiedCo[colorIdx(BLACK)], b.occupied, b.promoted>>

\* C36: push(Move.null()) swaps the side to move, clears epSquare, increments
\* the move counters, records the move and a snapshot on the stacks and leaves
\* the piece bitboards, both colour occupancies, occupied and promoted
\* unchanged; a following pop() restores the previous ep square and counters.
C36_NullMovePush ==
  [][last'.op = "pushNull" =>
       /\ board'.turn = ~board.turn
       /\ board'.epSquare = null
       /\ board'.halfmoveClock = board.halfmoveClock + 1
       /\ board'.fullmoveNumber = board.fullmoveNumber + (IF board.turn = BLACK THEN 1 ELSE 0)
       /\ Len(board'.moveStack) = Len(board.moveStack) + 1
       /\ ~moveBool(peek(board'))
       /\ Len(board'.stack) = Len(board.stack) + 1
       /\ placement(board') = placement(board)
       /\ pop(board').epSquare = board.epSquare
       /\ pop(board').halfmoveClock = board.halfmoveClock
       /\ pop(board').fullmoveNumber = board.fullmoveNumber
       /\ pop(board').turn = board.turn
       /\ Len(pop(board').moveStack) = Len(board.moveStack)]_vars

\* Black has passed with a null move instead of capturing en passant on e3
C36_Witness ==
  /\ last.op = "pushNull"
  /\ Len(board.stack) = 1
  /\ board.stack[1].epSquare = square(4, 2)
  /\ board.stack[1].halfmoveClock = 7
  /\ board.epSquare = null
  /\ board.halfmoveClock = 8
  /\ board.fullmoveNumber = 11
  /\ board.turn = WHITE

\* C37: isRepetition(n) and canClaimThreefoldRepetition() put back every move
\* they pop: on return, whatever the result, every field and bitboard and the
\* length and contents of the move stack and of the snapshot stack are what
\* they were before the call.
C37_RepetitionChecksRestore ==
  [][last'.op \in {"isRepetition", "canClaimThreefoldRepetition"} => board' = board]_vars

\* canClaimThreefoldRepetition() has returned true after eight moves of the
\* shuffle: it popped and pushed back all eight
C37_Witness ==
  /\ last.op = "canClaimThreefoldRepetition"
  /\ last.result
  /\ Len(board.moveStack) = 8
  /\ Len(board.stack) = 8
  /\ Len(popReversible(board, <<>>).switchyard) = 8

\* The kind of a generated move: of a pawn, castling, or of another piece
moveKind(b, move) ==
  IF move.fromSquare \in b.pawns THEN "pawn"
  ELSE IF isCastling(b, move) THEN "castling"
  ELSE "piece"

\* A pawn move along its file
isPawnPush(b, move) ==
  move.fromSquare \in b.pawns /\ squareFile(move.fromSquare) = squareFile(move.toSquare)

\* A pawn move to another file: onto a piece, or en passant onto an empty square
isPawnCapture(b, move) ==
  move.fromSquare \in b.pawns /\ squareFile(move.fromSquare) # squareFile(move.toSquare)

\* The same squares as the move, promoting to the given piece
promotesTo(move, pieceType) == [move EXCEPT !.promotion = pieceType]

\* Every promoting move is one of four consecutive moves Q, R, B, N
promotionsInOrder(seq) ==
  \A i \in 1..Len(seq) :
    /\ seq[i].promotion # null => seq[i].promotion \in {QUEEN, ROOK, BISHOP, KNIGHT}
    /\ seq[i].promotion = QUEEN =>
         /\ i + 3 <= Len(seq)
         /\ seq[i + 1] = promotesTo(seq[i], ROOK)
         /\ seq[i + 2] = promotesTo(seq[i], BISHOP)
         /\ seq[i + 3] = promotesTo(seq[i], KNIGHT)
    /\ seq[i].promotion = ROOK => i > 1 /\ seq[i - 1] = promotesTo(seq[i], QUEEN)
    /\ seq[i].promotion = BISHOP => i > 2 /\ seq[i - 2] = promotesTo(seq[i], QUEEN)
    /\ seq[i].promotion = KNIGHT => i > 3 /\ seq[i - 3] = promotesTo(seq[i], QUEEN)

\* Castling after the piece moves and before the pawn moves
castlingBetween(b, seq) ==
  \A i, j \in 1..Len(seq) :
    i < j =>
      /\ moveKind(b, seq[i]) = "castling" => moveKind(b, seq[j]) # "piece"
      /\ moveKind(b, seq[i]) = "pawn" => moveKind(b, seq[j]) = "pawn"

\* Every promoting pawn move carries a promotion
promotionsComplete(b, seq) ==
  \A i \in 1..Len(seq) :
    (seq[i].fromSquare \in b.pawns /\ squareRank(seq[i].toSquare) \in {0, 7})
      <=> seq[i].promotion # null

\* Every pawn capture of the sequence, en passant captures included when
\* epToo, comes before every pawn push
capturesBeforePushes(b, seq, epToo) ==
  \A i, j \in 1..Len(seq) :
    (/\ isPawnPush(b, seq[i])
     /\ isPawnCapture(b, seq[j])
     /\ (epToo \/ ~capturesEnPassant(b, seq[j])))
      => j < i

\* The en passant captures come after every other move
enPassantLast(b, seq) ==
  \A i, j \in 1..Len(seq) :
    (capturesEnPassant(b, seq[i]) /\ ~capturesEnPassant(b, seq[j])) => j < i

\* C38 as stated: in the sequence generatePseudoLegalMoves() yields, castling
\* moves come after all moves of non-pawn pieces and before all pawn moves, every
\* pawn capture, en passant captures included, comes before every pawn push,
\* and each promoting pawn move is emitted as four consecutive moves promoting
\* to Q, R, B, N in that order.
C38_PseudoLegalMoveOrder ==
  \A seq \in {generatePseudoLegalMoves(board, BB_ALL, BB_ALL)} :
    /\ castlingBetween(board, seq)
    /\ promotionsInOrder(seq)
    /\ promotionsComplete(board, seq)
    /\ capturesBeforePushes(board, seq, TRUE)

\* C38, amended: as above, but only the captures of a piece come before the
\* pawn pushes; the en passant captures come after every other move.
C38_PseudoLegalMoveOrderAmended ==
  \A seq \in {generatePseudoLegalMoves(board, BB_ALL, BB_ALL)} :
    /\ castlingBetween(board, seq)
    /\ promotionsInOrder(seq)
    /\ promotionsComplete(board, seq)
    /\ capturesBeforePushes(board, seq, FALSE)
    /\ enPassantLast(board, seq)

\* After a7-a5 White may push b5-b6 or capture b5xa6 en passant: the capture is
\* the last move yielded, after the push
C38_Witness ==
  /\ last.op = "push"
  /\ board.epSquare = square(0, 5)
  /\ \E seq \in {generatePseudoLegalMoves(board, BB_ALL, BB_ALL)} :
       \E i \in 1..Len(seq) :
         /\ i < Len(seq)
         /\ isPawnPush(board, seq[i])
         /\ capturesEnPassant(board, seq[Len(seq)])

\* C39: over any sequence of pushes no castling right is gained: castlingRights
\* after push(m) is a subset of castlingRights before it, and so is
\* cleanCastlingRights() after push(m) of cleanCastlingRights() before it.
C39_NoCastlingRightGained ==
  [][last'.op = "push" =>
       /\ board'.castlingRights \subseteq board.castlingRights
       /\ cleanCastlingRights(board') \subseteq cleanCastlingRights(board)]_vars

\* After the white rook has taken the rook on a8, the king has moved: the
\* rights shrank from all four to h1 and h8 and then to h8
C39_Witness ==
  /\ last.op = "push"
  /\ Len(board.stack) = 2
  /\ board.stack[1].castlingRights = {A1, H1, A8, H8}
  /\ board.stack[2].castlingRights = {H1, H8}
  /\ board.castlingRights = {H1}
  /\ cleanCastlingRights(board) = {H1}

\* C40: a setFen that raises ValueError (rows, columns, unknown character,
\* turn, castling, ep, clock or extra parts) leaves the piece placement, the
\* side to move, the castling rights, the ep square, both clocks and the move
\* stack exactly as they were before the call.
C40_FailedSetFenLeavesBoard ==
  [][last'.op = "setFenThrows" =>
       /\ placement(board') = placement(board)
       /\ board'.turn = board.turn
       /\ board'.castlingRights = board.castlingRights
       /\ board'.epSquare = board.epSquare
       /\ board'.halfmoveClock = board.halfmoveClock
       /\ board'.fullmoveNumber = board.fullmoveNumber
       /\ board'.moveStack = board.moveStack
       /\ board'.stack = board.stack]_vars

\* A string with a faulty placement field was rejected on a board that has
\* pieces, castling rights, a non-zero clock and a move on its stack.
C40_Witness ==
  /\ last.op = "setFenThrows"
  /\ last.input \in BAD_PLACEMENT_FENS
  /\ board.occupied # BB_EMPTY
  /\ board.castlingRights # BB_EMPTY
  /\ board.halfmoveClock > 0
  /\ Len(board.moveStack) > 0

====
